---- MODULE Spec2Model ----
(***************************************************************************)
(* A model of the PCA9685 controller of pkg/pca9685/pca9685.go: the        *)
(* 16-entry channel table, the per-channel RWMutex, the controller mutex,  *)
(* the recorded frequency, and the register bus as the in-memory adapter   *)
(* of adapter_testing.go keeps it.  Every goroutine that calls into the    *)
(* controller is a thread of the model; each method is cut into steps at   *)
(* its lock operations, its bus accesses and its unsynchronised accesses   *)
(* to shared fields.                                                       *)
(***************************************************************************)
EXTENDS Integers, Sequences, FiniteSets, TLC

(* ---- constants of pca9685.go ------------------------------------------ *)
RegMode1 == 0
Mode1Sleep == 16
Mode1AutoInc == 32
Mode1Restart == 128
RegMode2 == 1
Mode2OutDrv == 4
Mode2Invrt == 16
RegLed0 == 6
RegAllLed == 250
RegPrescale == 254
PwmResolution == 4096
MinFrequency == 24
MaxFrequency == 1526
OscClock == 25000000
NumChannels == 16
DefaultFreq == 1000

Channels == 0 .. (NumChannels - 1)

(* ---- bounds of the model ---------------------------------------------- *)
\* goroutines calling into one controller
NumThreads == 2
\* largest number of entries of a settings map, and of a channel list
MaxSettings == 2

Threads == 1 .. NumThreads

\* channel arguments: both ends of the table and the first index off each end
ChanArgs == {-1, 0, 15, 16}
\* keys of settings maps and entries of channel lists: both ends of the table and the
\* first index past its end
KeyArgs == {0, 15, 16}
\* (on, off) arguments: one pair inside 0..4095 and one with a 13-bit value
PwmArgs == {<<291, 4095>>, <<0, 4096>>}
\* frequency arguments
FreqArgs == {23, 24, 1526, 1527}

VARIABLES
  enabled,    \* Channel.enabled, per channel
  on,         \* Channel.on
  off,        \* Channel.off
  chMu,       \* Channel.mu: [w |-> thread holding Lock or 0, r |-> threads holding RLock]
  mu,         \* PCA9685.mu: thread holding Lock, or 0
  Freq,       \* PCA9685.Freq
  closed,     \* Close was called: pca.ctx is canceled
  regs,       \* the device's registers behind the bus: for MODE1, MODE2 and PRESCALE
              \* the last bytes written; for each channel the last pattern commanded
              \* to it, through its own registers or through the broadcast register
  pc,         \* per thread: where it is in its current call
  op,         \* per thread: the call it makes (method and arguments)
  ctxDone,    \* per thread: the context passed to the call is canceled
  sp,         \* per thread: the arguments of the running SetPWM
  loc,        \* per thread: the locals of the running method
  io,         \* per thread: the bus accesses of the current call, in order
  ret,        \* per thread: what the last call returned
  pump,       \* the Pump facade: its channel, minSpeed and maxSpeed
  led,        \* the RGBLed facade: its channels, brightness and calibration
  lastWrite   \* per thread: <<channel, on, off>> of the successful SetPWM call that it
              \* made last (SetPWM callers) or just before the current call (Caller)

chanVars == <<enabled, on, off>>
lockVars == <<chMu, mu>>
vars == <<enabled, on, off, chMu, mu, Freq, closed, regs,
          pc, op, ctxDone, sp, loc, io, ret, lastWrite, pump, led>>

(* ---- values ------------------------------------------------------------ *)
EmptyMap == [k \in {} |-> <<0, 0>>]
NoOp == [name |-> "none", ch |-> 0, on |-> 0, off |-> 0, freq |-> 0,
         chans |-> <<>>, settings |-> EmptyMap, canceled |-> FALSE,
         invert |-> FALSE, openDrain |-> FALSE, afterErr |-> FALSE,
         percent |-> 0, min |-> 0, max |-> 0, limits |-> FALSE,
         rgb |-> <<0, 0, 0>>, after |-> "none"]
NoSp == [ch |-> 0, on |-> 0, off |-> 0, ctx |-> "call"]
NoLoc == [i |-> 0, rem |-> {}, oldMode |-> 0, en |-> FALSE, rdOn |-> 0]
NoRet == [err |-> "pending", val |-> <<>>]
Result(e, v) == [err |-> e, val |-> v]
Free == [w |-> 0, r |-> {}]

\* validateChannel: nil for 0..15
validateChannel(channel) == IF channel < 0 \/ channel > 15 THEN "invalid_channel" ELSE "nil"

\* the four bytes with the high byte of each value first
PwmBytes_bigEndian(o, f) == <<(o \div 256) % 256, o % 256, (f \div 256) % 256, f % 256>>

\* the four data bytes SetPWM and SetAllPWM build from on and off
PwmBytes(o, f) == <<o % 256, (o \div 256) % 256, f % 256, (f \div 256) % 256>>

\* uint8(RegLed0 + 4*channel)
BaseReg(channel) == (RegLed0 + 4 * channel) % 256

\* the first of the four data registers of every channel
LedRegs == {BaseReg(c) : c \in Channels}

RegAddrs == {RegMode1, RegMode2, RegPrescale} \cup LedRegs

\* the registers after data reached register reg: a write to RegAllLed commands the
\* pattern to every channel
Stored(reg, data) ==
  [r \in RegAddrs |-> IF r = reg \/ (reg = RegAllLed /\ r \in LedRegs) THEN data
                      ELSE regs[r]]

\* goroutine u is inside the bus sequence of SetPWMFreq: past its first access and
\* before its last
MidFreq(u) == pc[u] \in {"Freq_sleep", "Freq_prescale", "Freq_restore", "Freq_restart"}

\* an entry of a call's access log: what was accessed, and which other goroutines
\* were inside a SetPWMFreq sequence when the access reached the bus
Access(t, kind, reg, data, ok) ==
  [kind |-> kind, reg |-> reg, data |-> data, ok |-> ok,
   during |-> {u \in Threads \ {t} : MidFreq(u)}]

\* TestI2C.WriteReg stores a copy of the data; a failed write stores nothing
WriteReg(t, reg, data, ok) ==
  /\ io' = [io EXCEPT ![t] = Append(@, Access(t, "w", reg, data, ok))]
  /\ regs' = IF ok THEN Stored(reg, data) ELSE regs

\* SetPWM without the select on ctx.Done()
SpCtxDone_ignored(t) == FALSE

\* the token a running SetPWM selects on: the caller's, or pca.ctx inside DisableChannels
SpCtxDone(t) == IF sp[t].ctx = "pca" THEN closed ELSE ctxDone[t]

(* ---- the state New returns over a healthy bus with DefaultConfig ------- *)
MaxDuty == 4095

\* NewPump(pca, 0): minSpeed 0 and maxSpeed 4095
DefaultPump == [channel |-> 0, minSpeed |-> 0, maxSpeed |-> MaxDuty]

\* DefaultRGBCalibration()
DefaultRGBCalibration ==
  [RedMin |-> 0, RedMax |-> MaxDuty, GreenMin |-> 0, GreenMax |-> MaxDuty,
   BlueMin |-> 0, BlueMax |-> MaxDuty]

\* NewRGBLed(pca, 0, 1, 2): brightness 1.0, kept as <<numerator, denominator>>
DefaultLed ==
  [channels |-> <<0, 1, 2>>, brightness |-> <<1, 1>>,
   calibration |-> DefaultRGBCalibration]

\* the two facades as their constructors return them
InitFacades == pump = DefaultPump /\ led = DefaultLed

InitController ==
  /\ enabled = [c \in Channels |-> TRUE]
  /\ on = [c \in Channels |-> 0]
  /\ off = [c \in Channels |-> 0]
  /\ chMu = [c \in Channels |-> Free]
  /\ mu = 0
  /\ Freq = DefaultFreq
  /\ closed = FALSE
  /\ regs = [r \in RegAddrs |->
               CASE r = RegMode1 -> <<176>>
                 [] r = RegMode2 -> <<Mode2OutDrv>>
                 [] r = RegPrescale -> <<5>>
                 [] OTHER -> <<>>]

InitDevice == InitController /\ InitFacades

\* no goroutine has called yet, but for the calls in begun (goroutine -> call) that
\* are at their first step
InitCalls(begun, first) ==
  /\ pc = [t \in Threads |-> IF t \in DOMAIN begun THEN first ELSE "idle"]
  /\ op = [t \in Threads |-> IF t \in DOMAIN begun THEN begun[t] ELSE NoOp]
  /\ ctxDone = [t \in Threads |-> FALSE]
  /\ sp = [t \in Threads |->
            IF t \in DOMAIN begun /\ begun[t].name = "SetPWM"
            THEN [ch |-> begun[t].ch, on |-> begun[t].on, off |-> begun[t].off,
                  ctx |-> "call"]
            ELSE NoSp]
  /\ loc = [t \in Threads |-> NoLoc]
  /\ io = [t \in Threads |-> <<>>]
  /\ ret = [t \in Threads |-> NoRet]
  /\ lastWrite = [t \in Threads |-> <<>>]

Init == InitDevice /\ InitCalls(<<>>, "idle")

\* goroutine t is between calls; its last call was of method name
Quiet(t) == pc[t] \in {"idle", "done"}
Returned(t, name) == pc[t] = "done" /\ op[t].name = name

(* ---- a goroutine begins a call ----------------------------------------- *)
BeginCall(t, o, first) ==
  /\ pc[t] \in {"idle", "done"}
  /\ op' = [op EXCEPT ![t] = o]
  /\ pc' = [pc EXCEPT ![t] = first]
  /\ ctxDone' = [ctxDone EXCEPT ![t] = o.canceled]
  /\ loc' = [loc EXCEPT ![t] = NoLoc]
  /\ io' = [io EXCEPT ![t] = <<>>]
  /\ ret' = [ret EXCEPT ![t] = NoRet]
  /\ UNCHANGED <<chanVars, lockVars, Freq, closed, pump, led, regs>>

\* a call of Caller: lastWrite is kept only over the call that follows the SetPWM
Begin(t, o, first) ==
  /\ BeginCall(t, o, first)
  /\ lastWrite' = [lastWrite EXCEPT ![t] =
                     IF op[t].name = "SetPWM" /\ ret[t].err = "nil" THEN @ ELSE <<>>]

\* the method returns e (and v) to the goroutine
Return(t, e, v) ==
  /\ pc' = [pc EXCEPT ![t] = "done"]
  /\ ret' = [ret EXCEPT ![t] = Result(e, v)]

\* the caller's token fires while its call runs (the calls that take a token)
CancelCtx(t) ==
  /\ pc[t] \notin {"idle", "done"}
  /\ op[t].name \in {"SetPWM", "SetAllPWM", "SetMultiPWM", "FadeChannel"}
  /\ ~ctxDone[t]
  /\ ctxDone' = [ctxDone EXCEPT ![t] = TRUE]
  /\ UNCHANGED <<chanVars, lockVars, Freq, closed, pump, led, regs, pc, op, sp, loc, io, ret,
                 lastWrite>>

(* ---- bit operations on bytes and the prescale value --------------------- *)
Bit(x, i) == (x \div (2 ^ i)) % 2

RECURSIVE BitOrFrom(_, _, _)
BitOrFrom(a, b, i) ==
  IF i > 7 THEN 0
  ELSE (IF Bit(a, i) = 1 \/ Bit(b, i) = 1 THEN 2 ^ i ELSE 0) + BitOrFrom(a, b, i + 1)

\* a | b on bytes
BitOr(a, b) == BitOrFrom(a, b, 0)

\* oldMode passed on without the mask
ClearRestart_kept(m) == m

\* oldMode & 0x7F
ClearRestart(m) == m % 128

\* the quotient truncated instead of rounded
RoundDiv_floor(a, b) == a \div b

\* math.Round(x) for x = a/b > 0: halves round away from zero
RoundDiv(a, b) == (2 * a + b) \div (2 * b)

\* the prescale value without the decrement
Prescale_noDecrement(freq) ==
  LET p == RoundDiv(OscClock, PwmResolution * freq)
  IN IF p < 3 THEN 3 ELSE p

\* math.Round(OscClock / (PwmResolution * freq)) - 1, raised to 3
Prescale(freq) ==
  LET p == RoundDiv(OscClock, PwmResolution * freq) - 1
  IN IF p < 3 THEN 3 ELSE p

\* readMode1 over TestI2C.ReadReg: the first byte last written, zero when none
ReadMode1 == IF Len(regs[RegMode1]) >= 1 THEN regs[RegMode1][1] ELSE 0

(* ---- SetPWM -------------------------------------------------------------- *)
\* SetMultiPWM going on to the next entry whatever SetPWM returned
MultiStops_never(e) == FALSE

\* if err := pca.SetPWM(...); err != nil { return err } in SetMultiPWM
MultiStops(e) == e # "nil"

\* SetPWM has returned e: back in the method that called it, or at the goroutine
AfterSetPWM(t, e) ==
  CASE op[t].name \in {"SetMultiPWM", "SetColor"} ->
         /\ IF ~MultiStops(e)
            THEN pc' = [pc EXCEPT ![t] = "Multi_loop"] /\ ret' = ret
            ELSE Return(t, e, <<>>)
         /\ UNCHANGED <<loc, lastWrite>>
    [] op[t].name = "FadeChannel" ->
         /\ IF e = "nil"
            THEN pc' = [pc EXCEPT ![t] = "Fade_loop"] /\ ret' = ret
            ELSE Return(t, e, <<>>)
         /\ UNCHANGED <<loc, lastWrite>>
    [] op[t].name = "DisableChannels" ->
         /\ IF e = "nil"
            THEN /\ pc' = [pc EXCEPT ![t] = "Disable_iter"]
                 /\ loc' = [loc EXCEPT ![t].i = @ + 1]
                 /\ ret' = ret
            ELSE Return(t, e, <<>>) /\ loc' = loc
         /\ UNCHANGED lastWrite
    [] OTHER ->
         /\ Return(t, e, <<>>)
         /\ lastWrite' = IF e = "nil"
                         THEN [lastWrite EXCEPT ![t] = <<sp[t].ch, sp[t].on, sp[t].off>>]
                         ELSE lastWrite
         /\ loc' = loc

\* SetPWM returning with ch.mu still locked
SpUnlock_leaked(t) == chMu' = chMu

\* ch.mu.Unlock() of the running SetPWM (deferred), on each return past the Lock
SpUnlock(t) == chMu' = [chMu EXCEPT ![sp[t].ch] = Free]

CallSetPWM(t) ==
  \E c \in ChanArgs, v \in PwmArgs, cx \in BOOLEAN :
    /\ Begin(t, [NoOp EXCEPT !.name = "SetPWM", !.ch = c, !.on = v[1], !.off = v[2],
                             !.canceled = cx], "SetPWM_enter")
    /\ sp' = [sp EXCEPT ![t] = [ch |-> c, on |-> v[1], off |-> v[2], ctx |-> "call"]]

\* validateChannel(channel)
SetPWM_enter(t) ==
  /\ pc[t] = "SetPWM_enter"
  /\ IF validateChannel(sp[t].ch) # "nil"
     THEN AfterSetPWM(t, "invalid_channel")
     ELSE /\ pc' = [pc EXCEPT ![t] = "SetPWM_lock"]
          /\ UNCHANGED <<ret, loc, lastWrite>>
  /\ UNCHANGED <<chanVars, lockVars, Freq, closed, pump, led, regs, op, ctxDone, sp, io>>

\* ch.mu.Lock(): waits until no goroutine holds the channel's mutex
SetPWM_lock(t) ==
  /\ pc[t] = "SetPWM_lock"
  /\ chMu[sp[t].ch] = Free
  /\ chMu' = [chMu EXCEPT ![sp[t].ch] = [w |-> t, r |-> {}]]
  /\ pc' = [pc EXCEPT ![t] = "SetPWM_write"]
  /\ UNCHANGED <<chanVars, mu, Freq, closed, pump, led, regs, op, ctxDone, sp, loc, io, ret,
                 lastWrite>>

\* the enabled test, the select on ctx.Done() and dev.WriteReg(baseReg, data)
SetPWM_write(t) ==
  /\ pc[t] = "SetPWM_write"
  /\ IF ~enabled[sp[t].ch]
     THEN AfterSetPWM(t, "disabled") /\ SpUnlock(t) /\ UNCHANGED <<io, regs>>
     ELSE IF SpCtxDone(t)
     THEN AfterSetPWM(t, "canceled") /\ SpUnlock(t) /\ UNCHANGED <<io, regs>>
     ELSE \E ok \in BOOLEAN :
            /\ WriteReg(t, BaseReg(sp[t].ch), PwmBytes(sp[t].on, sp[t].off), ok)
            /\ IF ok
               THEN /\ pc' = [pc EXCEPT ![t] = "SetPWM_on"]
                    /\ UNCHANGED <<chMu, ret, loc, lastWrite>>
               ELSE AfterSetPWM(t, "bus") /\ SpUnlock(t)
  /\ UNCHANGED <<chanVars, mu, Freq, closed, pump, led, op, ctxDone, sp>>

\* SetPWM storing through &pca.channels[0] whatever the channel
SetPWM_on_first(t) ==
  /\ pc[t] = "SetPWM_on"
  /\ on' = [on EXCEPT ![0] = sp[t].on]
  /\ pc' = [pc EXCEPT ![t] = "SetPWM_off"]
  /\ UNCHANGED <<enabled, off, lockVars, Freq, closed, pump, led, regs, op, ctxDone, sp, loc, io,
                 ret, lastWrite>>

\* ch.on = on
SetPWM_on(t) ==
  /\ pc[t] = "SetPWM_on"
  /\ on' = [on EXCEPT ![sp[t].ch] = sp[t].on]
  /\ pc' = [pc EXCEPT ![t] = "SetPWM_off"]
  /\ UNCHANGED <<enabled, off, lockVars, Freq, closed, pump, led, regs, op, ctxDone, sp, loc, io,
                 ret, lastWrite>>

\* SetPWM returning nil without the store to ch.off
SetPWM_off_stale(t) ==
  /\ pc[t] = "SetPWM_off"
  /\ AfterSetPWM(t, "nil")
  /\ SpUnlock(t)
  /\ UNCHANGED <<enabled, on, off, mu, Freq, closed, pump, led, regs, op, ctxDone, sp, io>>

\* ch.off = off; return nil
SetPWM_off(t) ==
  /\ pc[t] = "SetPWM_off"
  /\ off' = [off EXCEPT ![sp[t].ch] = sp[t].off]
  /\ AfterSetPWM(t, "nil")
  /\ SpUnlock(t)
  /\ UNCHANGED <<enabled, on, mu, Freq, closed, pump, led, regs, op, ctxDone, sp, io>>

(* ---- GetChannelState ----------------------------------------------------- *)
\* uint16 arithmetic
U16(x) == x % 65536

\* GetCurrentSpeed's conversion without the minimum subtracted
CurrentSpeed_noOffset(o) ==
  IF o <= pump.minSpeed THEN 0
  ELSE IF o >= pump.maxSpeed THEN 100
  ELSE RoundDiv(o * 100, U16(pump.maxSpeed - pump.minSpeed))

\* GetCurrentSpeed's conversion of the off value it read, in whole percents
CurrentSpeed(o) ==
  IF o <= pump.minSpeed THEN 0
  ELSE IF o >= pump.maxSpeed THEN 100
  ELSE RoundDiv(U16(o - pump.minSpeed) * 100, U16(pump.maxSpeed - pump.minSpeed))

\* GetChannelState returns e and state to its caller: to the goroutine, or to
\* GetCurrentSpeed, which returns 0 with the error and the converted off otherwise
GetReturn(t, e, state) ==
  Return(t, e, IF op[t].name = "GetCurrentSpeed"
               THEN <<IF e = "nil" THEN CurrentSpeed(state[3]) ELSE 0>>
               ELSE state)

CallGet(t) ==
  \E c \in ChanArgs :
    /\ Begin(t, [NoOp EXCEPT !.name = "GetChannelState", !.ch = c], "Get_enter")
    /\ sp' = sp

\* validateChannel(channel)
Get_enter(t) ==
  /\ pc[t] = "Get_enter"
  /\ IF validateChannel(op[t].ch) # "nil"
     THEN GetReturn(t, "invalid_channel", <<FALSE, 0, 0>>)
     ELSE pc' = [pc EXCEPT ![t] = "Get_rlock"] /\ ret' = ret
  /\ UNCHANGED <<chanVars, lockVars, Freq, closed, pump, led, regs, op, ctxDone, sp, loc, io,
                 lastWrite>>

\* ch.mu.RLock(), then the read of ch.enabled
Get_rlock(t) ==
  /\ pc[t] = "Get_rlock"
  /\ chMu[op[t].ch].w = 0
  /\ chMu' = [chMu EXCEPT ![op[t].ch].r = @ \cup {t}]
  /\ loc' = [loc EXCEPT ![t].en = enabled[op[t].ch]]
  /\ pc' = [pc EXCEPT ![t] = "Get_on"]
  /\ UNCHANGED <<chanVars, mu, Freq, closed, pump, led, regs, op, ctxDone, sp, io, ret,
                 lastWrite>>

\* the read of ch.on
Get_on(t) ==
  /\ pc[t] = "Get_on"
  /\ loc' = [loc EXCEPT ![t].rdOn = on[op[t].ch]]
  /\ pc' = [pc EXCEPT ![t] = "Get_off"]
  /\ UNCHANGED <<chanVars, lockVars, Freq, closed, pump, led, regs, op, ctxDone, sp, io, ret,
                 lastWrite>>

\* the read of ch.off, the return and the deferred RUnlock
Get_off(t) ==
  /\ pc[t] = "Get_off"
  /\ GetReturn(t, "nil", <<loc[t].en, loc[t].rdOn, off[op[t].ch]>>)
  /\ chMu' = [chMu EXCEPT ![op[t].ch].r = @ \ {t}]
  /\ UNCHANGED <<chanVars, mu, Freq, closed, pump, led, regs, op, ctxDone, sp, loc, io,
                 lastWrite>>

(* ---- PCA9685.mu ------------------------------------------------------------------ *)
\* pca.mu.Lock() returning at once
MuFree_ignored == TRUE

\* pca.mu.Lock() returns when no goroutine holds pca.mu
MuFree == mu = 0

(* ---- SetAllPWM ------------------------------------------------------------ *)
CallSetAllPWM(t) ==
  \E v \in PwmArgs, cx \in BOOLEAN :
    /\ Begin(t, [NoOp EXCEPT !.name = "SetAllPWM", !.on = v[1], !.off = v[2],
                             !.canceled = cx], "SetAll_lock")
    /\ sp' = sp

\* pca.mu.Lock()
SetAll_lock(t) ==
  /\ pc[t] = "SetAll_lock"
  /\ MuFree
  /\ mu' = t
  /\ pc' = [pc EXCEPT ![t] = "SetAll_write"]
  /\ UNCHANGED <<chanVars, chMu, Freq, closed, pump, led, regs, op, ctxDone, sp, loc, io, ret,
                 lastWrite>>

\* the select on ctx.Done() and dev.WriteReg(RegAllLed, data)
SetAll_write(t) ==
  /\ pc[t] = "SetAll_write"
  /\ IF ctxDone[t]
     THEN Return(t, "canceled", <<>>) /\ mu' = 0 /\ UNCHANGED <<io, regs, loc>>
     ELSE \E ok \in BOOLEAN :
            /\ WriteReg(t, RegAllLed, PwmBytes(op[t].on, op[t].off), ok)
            /\ IF ok
               THEN /\ pc' = [pc EXCEPT ![t] = "SetAll_loop"]
                    /\ loc' = [loc EXCEPT ![t].i = 0]
                    /\ UNCHANGED <<mu, ret>>
               ELSE Return(t, "bus", <<>>) /\ mu' = 0 /\ loc' = loc
  /\ UNCHANGED <<chanVars, chMu, Freq, closed, pump, led, op, ctxDone, sp, lastWrite>>

\* SetAllPWM storing into every channel
AllStores_any(c) == TRUE

\* if pca.channels[i].enabled
AllStores(c) == enabled[c]

\* for i := range pca.channels: the read of channels[i].enabled, without channels[i].mu
SetAll_loop(t) ==
  /\ pc[t] = "SetAll_loop"
  /\ IF loc[t].i >= NumChannels
     THEN Return(t, "nil", <<>>) /\ mu' = 0 /\ loc' = loc
     ELSE /\ IF AllStores(loc[t].i)
             THEN pc' = [pc EXCEPT ![t] = "SetAll_on"] /\ loc' = loc
             ELSE pc' = pc /\ loc' = [loc EXCEPT ![t].i = @ + 1]
          /\ UNCHANGED <<mu, ret>>
  /\ UNCHANGED <<chanVars, chMu, Freq, closed, pump, led, regs, op, ctxDone, sp, io, lastWrite>>

\* pca.channels[i].on = on
SetAll_on(t) ==
  /\ pc[t] = "SetAll_on"
  /\ on' = [on EXCEPT ![loc[t].i] = op[t].on]
  /\ pc' = [pc EXCEPT ![t] = "SetAll_off"]
  /\ UNCHANGED <<enabled, off, lockVars, Freq, closed, pump, led, regs, op, ctxDone, sp, loc, io,
                 ret, lastWrite>>

\* pca.channels[i].off = off
SetAll_off(t) ==
  /\ pc[t] = "SetAll_off"
  /\ off' = [off EXCEPT ![loc[t].i] = op[t].off]
  /\ loc' = [loc EXCEPT ![t].i = @ + 1]
  /\ pc' = [pc EXCEPT ![t] = "SetAll_loop"]
  /\ UNCHANGED <<enabled, on, lockVars, Freq, closed, pump, led, regs, op, ctxDone, sp, io,
                 ret, lastWrite>>

(* ---- SetMultiPWM ----------------------------------------------------------- *)
SettingsArgs ==
  UNION {[K -> PwmArgs] : K \in {S \in SUBSET KeyArgs : Cardinality(S) <= MaxSettings}}

CallSetMultiPWM(t) ==
  \E m \in SettingsArgs, cx \in BOOLEAN :
    /\ Begin(t, [NoOp EXCEPT !.name = "SetMultiPWM", !.settings = m, !.canceled = cx],
             "Multi_validate")
    /\ sp' = sp

\* SetMultiPWM without its first loop
InvalidKeys_unchecked(m) == {}

\* the keys that the first loop of SetMultiPWM rejects
InvalidKeys(m) == {k \in DOMAIN m : validateChannel(k) # "nil"}

\* the first loop: validateChannel of every key
Multi_validate(t) ==
  /\ pc[t] = "Multi_validate"
  /\ IF InvalidKeys(op[t].settings) # {}
     THEN Return(t, "invalid_channel", <<>>) /\ loc' = loc
     ELSE /\ pc' = [pc EXCEPT ![t] = "Multi_loop"]
          /\ loc' = [loc EXCEPT ![t].rem = DOMAIN op[t].settings]
          /\ ret' = ret
  /\ UNCHANGED <<chanVars, lockVars, Freq, closed, pump, led, regs, op, ctxDone, sp, io,
                 lastWrite>>

\* the second loop: the next key in the map's order (any order), the select on
\* ctx.Done(), and the call of SetPWM
Multi_loop(t) ==
  /\ pc[t] = "Multi_loop"
  /\ IF loc[t].rem = {}
     THEN Return(t, "nil", <<>>) /\ UNCHANGED <<loc, sp>>
     ELSE IF ctxDone[t]
     THEN Return(t, "canceled", <<>>) /\ UNCHANGED <<loc, sp>>
     ELSE \E k \in loc[t].rem :
            /\ loc' = [loc EXCEPT ![t].rem = @ \ {k}]
            /\ sp' = [sp EXCEPT ![t] = [ch |-> k, on |-> op[t].settings[k][1],
                                        off |-> op[t].settings[k][2], ctx |-> "call"]]
            /\ pc' = [pc EXCEPT ![t] = "SetPWM_enter"]
            /\ ret' = ret
  /\ UNCHANGED <<chanVars, lockVars, Freq, closed, pump, led, regs, op, ctxDone, io, lastWrite>>

(* ---- EnableChannels and DisableChannels ------------------------------------ *)
ChanLists == UNION {[1 .. n -> KeyArgs] : n \in 0 .. MaxSettings}

CallEnableChannels(t) ==
  \E l \in ChanLists :
    /\ Begin(t, [NoOp EXCEPT !.name = "EnableChannels", !.chans = l], "Enable_iter")
    /\ sp' = sp

\* for _, ch := range channels: validateChannel(ch)
Enable_iter(t) ==
  /\ pc[t] = "Enable_iter"
  /\ IF loc[t].i + 1 > Len(op[t].chans)
     THEN Return(t, "nil", <<>>)
     ELSE IF validateChannel(op[t].chans[loc[t].i + 1]) # "nil"
     THEN Return(t, "invalid_channel", <<>>)
     ELSE pc' = [pc EXCEPT ![t] = "Enable_set"] /\ ret' = ret
  /\ UNCHANGED <<chanVars, lockVars, Freq, closed, pump, led, regs, op, ctxDone, sp, loc, io,
                 lastWrite>>

\* mu.Lock(); enabled = true; mu.Unlock()
Enable_set(t) ==
  /\ pc[t] = "Enable_set"
  /\ chMu[op[t].chans[loc[t].i + 1]] = Free
  /\ enabled' = [enabled EXCEPT ![op[t].chans[loc[t].i + 1]] = TRUE]
  /\ loc' = [loc EXCEPT ![t].i = @ + 1]
  /\ pc' = [pc EXCEPT ![t] = "Enable_iter"]
  /\ UNCHANGED <<on, off, lockVars, Freq, closed, pump, led, regs, op, ctxDone, sp, io, ret,
                 lastWrite>>

CallDisableChannels(t) ==
  \E l \in ChanLists :
    /\ Begin(t, [NoOp EXCEPT !.name = "DisableChannels", !.chans = l], "Disable_iter")
    /\ sp' = sp

\* for _, ch := range channels: validateChannel(ch)
Disable_iter(t) ==
  /\ pc[t] = "Disable_iter"
  /\ IF loc[t].i + 1 > Len(op[t].chans)
     THEN Return(t, "nil", <<>>)
     ELSE IF validateChannel(op[t].chans[loc[t].i + 1]) # "nil"
     THEN Return(t, "invalid_channel", <<>>)
     ELSE pc' = [pc EXCEPT ![t] = "Disable_lock"] /\ ret' = ret
  /\ UNCHANGED <<chanVars, lockVars, Freq, closed, pump, led, regs, op, ctxDone, sp, loc, io,
                 lastWrite>>

\* mu.Lock(); enabled = false; then the call SetPWM(pca.ctx, ch, 0, 0) with mu held
Disable_lock(t) ==
  /\ pc[t] = "Disable_lock"
  /\ chMu[op[t].chans[loc[t].i + 1]] = Free
  /\ chMu' = [chMu EXCEPT ![op[t].chans[loc[t].i + 1]] = [w |-> t, r |-> {}]]
  /\ enabled' = [enabled EXCEPT ![op[t].chans[loc[t].i + 1]] = FALSE]
  /\ sp' = [sp EXCEPT ![t] = [ch |-> op[t].chans[loc[t].i + 1], on |-> 0, off |-> 0,
                              ctx |-> "pca"]]
  /\ pc' = [pc EXCEPT ![t] = "SetPWM_enter"]
  /\ UNCHANGED <<on, off, mu, Freq, closed, pump, led, regs, op, ctxDone, loc, io, ret,
                 lastWrite>>

(* ---- SetPWMFreq ------------------------------------------------------------ *)
CallSetPWMFreq(t) ==
  \E f \in FreqArgs :
    /\ Begin(t, [NoOp EXCEPT !.name = "SetPWMFreq", !.freq = f], "Freq_enter")
    /\ sp' = sp

\* the range test with <= and >=
FreqOutOfRange_strict(freq) == freq <= MinFrequency \/ freq >= MaxFrequency

\* freq < MinFrequency || freq > MaxFrequency
FreqOutOfRange(freq) == freq < MinFrequency \/ freq > MaxFrequency

\* the range test
Freq_enter(t) ==
  /\ pc[t] = "Freq_enter"
  /\ IF FreqOutOfRange(op[t].freq)
     THEN Return(t, "freq_range", <<>>)
     ELSE pc' = [pc EXCEPT ![t] = "Freq_lock"] /\ ret' = ret
  /\ UNCHANGED <<chanVars, lockVars, Freq, closed, pump, led, regs, op, ctxDone, sp, loc, io,
                 lastWrite>>

\* pca.mu.Lock()
Freq_lock(t) ==
  /\ pc[t] = "Freq_lock"
  /\ MuFree
  /\ mu' = t
  /\ pc' = [pc EXCEPT ![t] = "Freq_read"]
  /\ UNCHANGED <<chanVars, chMu, Freq, closed, pump, led, regs, op, ctxDone, sp, loc, io, ret,
                 lastWrite>>

\* oldMode, err := pca.readMode1()
Freq_read(t) ==
  /\ pc[t] = "Freq_read"
  /\ \E ok \in BOOLEAN :
       /\ io' = [io EXCEPT ![t] = Append(@, Access(t, "r", RegMode1,
                                                    IF ok THEN <<ReadMode1>> ELSE <<>>, ok))]
       /\ IF ok
          THEN /\ loc' = [loc EXCEPT ![t].oldMode = ReadMode1]
               /\ pc' = [pc EXCEPT ![t] = "Freq_sleep"]
               /\ UNCHANGED <<mu, ret>>
          ELSE Return(t, "bus", <<>>) /\ mu' = 0 /\ loc' = loc
  /\ UNCHANGED <<chanVars, chMu, Freq, closed, pump, led, regs, op, ctxDone, sp, lastWrite>>

\* one of the three writes that precede the final one: on failure the method
\* returns the bus error and the deferred Unlock runs
FreqWrite(t, reg, data, next) ==
  /\ \E ok \in BOOLEAN :
       /\ WriteReg(t, reg, data, ok)
       /\ IF ok
          THEN pc' = [pc EXCEPT ![t] = next] /\ UNCHANGED <<mu, ret>>
          ELSE Return(t, "bus", <<>>) /\ mu' = 0
  /\ UNCHANGED <<chanVars, chMu, Freq, closed, pump, led, op, ctxDone, sp, loc, lastWrite>>

\* WriteReg(RegMode1, (oldMode & 0x7F) | Mode1Sleep)
Freq_sleep(t) ==
  /\ pc[t] = "Freq_sleep"
  /\ FreqWrite(t, RegMode1, <<BitOr(ClearRestart(loc[t].oldMode), Mode1Sleep)>>,
               "Freq_prescale")

\* WriteReg(RegPrescale, byte(prescale))
Freq_prescale(t) ==
  /\ pc[t] = "Freq_prescale"
  /\ FreqWrite(t, RegPrescale, <<Prescale(op[t].freq) % 256>>, "Freq_restore")

\* WriteReg(RegMode1, oldMode); the settle delay follows
Freq_restore(t) ==
  /\ pc[t] = "Freq_restore"
  /\ FreqWrite(t, RegMode1, <<loc[t].oldMode>>, "Freq_restart")

\* pca.Freq = freq moved before the test of the last write's error
FreqAfter_early(t, ok) == op[t].freq

\* the recorded frequency after the last write of SetPWMFreq returned ok
FreqAfter(t, ok) == IF ok THEN op[t].freq ELSE Freq

\* New returning the controller whatever SetPWMFreq returned
NewValue_partial(t, ok) == IF op[t].name = "New" THEN <<"pca">> ELSE <<>>

\* what the caller gets besides the error: from New the controller when SetPWMFreq
\* returned nil and nil otherwise, from SetPWMFreq nothing
NewValue(t, ok) == IF ok /\ op[t].name = "New" THEN <<"pca">> ELSE <<>>

\* WriteReg(RegMode1, oldMode | Mode1Restart | Mode1AutoInc); pca.Freq = freq
Freq_restart(t) ==
  /\ pc[t] = "Freq_restart"
  /\ \E ok \in BOOLEAN :
       /\ WriteReg(t, RegMode1,
                   <<BitOr(BitOr(loc[t].oldMode, Mode1Restart), Mode1AutoInc)>>, ok)
       /\ Freq' = FreqAfter(t, ok)
       /\ Return(t, IF ok THEN "nil" ELSE "bus", NewValue(t, ok))
  /\ mu' = 0
  /\ UNCHANGED <<chanVars, chMu, closed, pump, led, op, ctxDone, sp, loc, lastWrite>>

(* ---- Reset and New ------------------------------------------------------------ *)
\* no controller yet, over an adapter nothing was written to
InitBlank ==
  /\ enabled = [c \in Channels |-> FALSE]
  /\ on = [c \in Channels |-> 0]
  /\ off = [c \in Channels |-> 0]
  /\ chMu = [c \in Channels |-> Free]
  /\ mu = 0
  /\ Freq = 0
  /\ closed = FALSE
  /\ regs = [r \in RegAddrs |-> <<>>]
  /\ InitFacades
  /\ InitCalls(<<>>, "idle")

\* config.InitialFreq
InitialFreqArgs == FreqArgs \cup {DefaultFreq}

\* New up to its call of Reset: a fresh PCA9685 over the same adapter, every channel
\* enabled
CallNew(t) ==
  \E f \in InitialFreqArgs, iv \in BOOLEAN, od \in BOOLEAN :
    /\ pc[t] \in {"idle", "done"}
    /\ op' = [op EXCEPT ![t] = [NoOp EXCEPT !.name = "New", !.freq = f, !.invert = iv,
                                            !.openDrain = od]]
    /\ pc' = [pc EXCEPT ![t] = "Reset_lock"]
    /\ enabled' = [c \in Channels |-> TRUE]
    /\ on' = [c \in Channels |-> 0]
    /\ off' = [c \in Channels |-> 0]
    /\ chMu' = [c \in Channels |-> Free]
    /\ mu' = 0
    /\ Freq' = 0
    /\ closed' = FALSE
    /\ ctxDone' = [ctxDone EXCEPT ![t] = FALSE]
    /\ loc' = [loc EXCEPT ![t] = NoLoc]
    /\ io' = [io EXCEPT ![t] = <<>>]
    /\ ret' = [ret EXCEPT ![t] = NoRet]
    /\ lastWrite' = [lastWrite EXCEPT ![t] = <<>>]
    /\ UNCHANGED <<regs, sp, pump, led>>

CallReset(t) ==
  /\ Begin(t, [NoOp EXCEPT !.name = "Reset"], "Reset_lock")
  /\ sp' = sp

\* pca.mu.Lock()
Reset_lock(t) ==
  /\ pc[t] = "Reset_lock"
  /\ MuFree
  /\ mu' = t
  /\ pc' = [pc EXCEPT ![t] = "Reset_write"]
  /\ UNCHANGED <<chanVars, chMu, Freq, closed, pump, led, regs, op, ctxDone, sp, loc, io, ret,
                 lastWrite>>

\* WriteReg(RegMode1, Mode1Sleep | Mode1AutoInc) and the deferred Unlock; back in New
\* when New called
Reset_write(t) ==
  /\ pc[t] = "Reset_write"
  /\ \E ok \in BOOLEAN :
       /\ WriteReg(t, RegMode1, <<BitOr(Mode1Sleep, Mode1AutoInc)>>, ok)
       /\ IF ok /\ op[t].name = "New"
          THEN pc' = [pc EXCEPT ![t] = "New_mode2"] /\ ret' = ret
          ELSE Return(t, IF ok THEN "nil" ELSE "bus", <<>>)
  /\ mu' = 0
  /\ UNCHANGED <<chanVars, chMu, Freq, closed, pump, led, op, ctxDone, sp, loc, lastWrite>>

\* mode2 of New
Mode2Byte(o) ==
  BitOr(IF ~o.openDrain THEN Mode2OutDrv ELSE 0, IF o.invert THEN Mode2Invrt ELSE 0)

\* WriteReg(RegMode2, mode2), then the call SetPWMFreq(config.InitialFreq), whose
\* result is New's
New_mode2(t) ==
  /\ pc[t] = "New_mode2"
  /\ \E ok \in BOOLEAN :
       /\ WriteReg(t, RegMode2, <<Mode2Byte(op[t])>>, ok)
       /\ IF ok
          THEN pc' = [pc EXCEPT ![t] = "Freq_enter"] /\ ret' = ret
          ELSE Return(t, "bus", <<>>)
  /\ UNCHANGED <<chanVars, lockVars, Freq, closed, pump, led, op, ctxDone, sp, loc, lastWrite>>

(* ---- Close ------------------------------------------------------------------ *)
CallClose(t) ==
  /\ Begin(t, [NoOp EXCEPT !.name = "Close"], "Close_run")
  /\ sp' = sp

\* pca.cancel(); return pca.dev.Close()  (TestI2C.Close returns nil)
Close_run(t) ==
  /\ pc[t] = "Close_run"
  /\ closed' = TRUE
  /\ Return(t, "nil", <<>>)
  /\ UNCHANGED <<chanVars, lockVars, Freq, regs, op, ctxDone, sp, loc, io,
                 lastWrite, pump, led>>

(* ---- Pump (pump.go): one goroutine drives the facade, so Pump.mu is never
        contended and its Lock and Unlock are not steps ----------------------------- *)
\* arguments of WithSpeedLimits and SetSpeedLimits: the ends of the duty range, two
\* values inside it and one 16-bit value past its end
LimitArgs == {0, 1000, 3500, MaxDuty, 5000}
\* percent arguments: the ends and the middle of 0..100 and the first whole percent
\* off each end
PercentArgs == {-1, 0, 50, 100, 101}
\* channel arguments of NewPump: a channel and the first index past the table (the
\* latter without the limits option: NewPump returns before it applies options)
PumpChanArgs == {0, 16}

\* the option of WithSpeedLimits(min, max) applied to the new pump
WithSpeedLimits(min, max) ==
  LET lo == IF min > max THEN max ELSE min
      hi == IF min > max THEN min ELSE max
  IN [minSpeed |-> lo, maxSpeed |-> IF hi > MaxDuty THEN MaxDuty ELSE hi]

\* the name of the call that goroutine t made last, when it returned nil
LastCall(t) == IF pc[t] = "done" /\ ret[t].err = "nil" THEN op[t].name ELSE "none"

CallNewPump(t) ==
  \E c \in PumpChanArgs, o \in BOOLEAN, a \in LimitArgs, b \in LimitArgs :
    /\ (o /\ c \in Channels) \/ (a = 0 /\ b = 0)
    /\ Begin(t, [NoOp EXCEPT !.name = "NewPump", !.ch = c, !.chans = <<c>>,
                             !.limits = o, !.min = a, !.max = b], "NewPump_init")
    /\ sp' = sp

\* the channel test, the new Pump with its defaults, the options, and the call
\* pca.EnableChannels(channel), whose result is NewPump's
NewPump_init(t) ==
  /\ pc[t] = "NewPump_init"
  /\ IF op[t].ch < 0 \/ op[t].ch > 15
     THEN Return(t, "invalid_channel", <<>>) /\ pump' = pump
     ELSE /\ pump' = IF op[t].limits
                     THEN [channel |-> op[t].ch,
                           minSpeed |-> WithSpeedLimits(op[t].min, op[t].max).minSpeed,
                           maxSpeed |-> WithSpeedLimits(op[t].min, op[t].max).maxSpeed]
                     ELSE [channel |-> op[t].ch, minSpeed |-> 0, maxSpeed |-> MaxDuty]
          /\ pc' = [pc EXCEPT ![t] = "Enable_iter"]
          /\ ret' = ret
  /\ UNCHANGED <<chanVars, lockVars, Freq, closed, led, regs, op, ctxDone, sp, loc, io,
                 lastWrite>>

CallSetSpeedLimits(t) ==
  \E a \in LimitArgs, b \in LimitArgs :
    /\ Begin(t, [NoOp EXCEPT !.name = "SetSpeedLimits", !.min = a, !.max = b],
             "Limits_check")
    /\ sp' = sp

\* SetSpeedLimits storing its arguments in the other order
NewLimits_swapped(min, max) == [pump EXCEPT !.minSpeed = max, !.maxSpeed = min]

\* p.minSpeed = min; p.maxSpeed = max
NewLimits(min, max) == [pump EXCEPT !.minSpeed = min, !.maxSpeed = max]

\* SetSpeedLimits: its two tests, then the stores
Limits_check(t) ==
  /\ pc[t] = "Limits_check"
  /\ IF op[t].min > op[t].max
     THEN Return(t, "min_above_max", <<>>) /\ pump' = pump
     ELSE IF op[t].max > MaxDuty
     THEN Return(t, "max_range", <<>>) /\ pump' = pump
     ELSE Return(t, "nil", <<>>) /\ pump' = NewLimits(op[t].min, op[t].max)
  /\ UNCHANGED <<chanVars, lockVars, Freq, closed, led, regs, op, ctxDone, sp, loc, io,
                 lastWrite>>

\* the arguments of the SetSpeedLimits that goroutine t made last, when it returned nil
LastLimits(t) ==
  IF LastCall(t) = "SetSpeedLimits" THEN <<op[t].min, op[t].max>> ELSE <<0, 0>>

\* SetSpeed(ctx, percent) with a live token; the call keeps the arguments of the
\* SetSpeedLimits that returned nil just before it
CallSetSpeed(t) ==
  \E p \in PercentArgs :
    /\ Begin(t, [NoOp EXCEPT !.name = "SetSpeed", !.percent = p, !.after = LastCall(t),
                             !.min = LastLimits(t)[1], !.max = LastLimits(t)[2]],
             "Speed_check")
    /\ sp' = sp

\* Stop(ctx): SetSpeed(ctx, 0)
CallStop(t) ==
  /\ Begin(t, [NoOp EXCEPT !.name = "Stop", !.percent = 0, !.after = LastCall(t)],
           "Speed_check")
  /\ sp' = sp

\* the scaling of SetSpeed without the minimum added
SetSpeed_scale_noOffset(percent, min, max) == U16(RoundDiv(percent * U16(max - min), 100))

\* scale of SetSpeed: uint16(math.Round(percent * float64(max - min) / 100.0)) + min
SetSpeed_scale(percent, min, max) ==
  U16(U16(RoundDiv(percent * U16(max - min), 100)) + min)

\* the percent test, then the call p.pca.SetPWM(ctx, p.channel, 0, value), whose
\* result is SetSpeed's
Speed_check(t) ==
  /\ pc[t] = "Speed_check"
  /\ IF op[t].percent < 0 \/ op[t].percent > 100
     THEN Return(t, "percent_range", <<>>) /\ sp' = sp
     ELSE /\ sp' = [sp EXCEPT ![t] =
                      [ch |-> pump.channel, on |-> 0,
                       off |-> SetSpeed_scale(op[t].percent, pump.minSpeed, pump.maxSpeed),
                       ctx |-> "call"]]
          /\ pc' = [pc EXCEPT ![t] = "SetPWM_enter"]
          /\ ret' = ret
  /\ UNCHANGED <<chanVars, lockVars, Freq, closed, pump, led, regs, op, ctxDone, loc, io,
                 lastWrite>>

\* GetCurrentSpeed(): the call p.pca.GetChannelState(p.channel); the call keeps the
\* percent of the SetSpeed or Stop, or the arguments of the SetSpeedLimits, that
\* returned nil just before it
CallGetCurrentSpeed(t) ==
  /\ Begin(t, [NoOp EXCEPT !.name = "GetCurrentSpeed", !.ch = pump.channel,
                           !.after = LastCall(t),
                           !.min = LastLimits(t)[1], !.max = LastLimits(t)[2],
                           !.percent = IF LastCall(t) \in {"SetSpeed", "Stop"}
                                       THEN op[t].percent ELSE 0], "Get_enter")
  /\ sp' = sp

(* ---- RGBLed (rgb.go): one goroutine drives the facade ---------------------------- *)
\* scale of SetColor: uint16(v * float64(max - min) / 255.0 + float64(min)) with
\* v = float64(value) * brightness, the conversion truncating, then the clamp to max
SetColor_scale(value, min, max) ==
  LET scaled == U16((value * led.brightness[1] * U16(max - min))
                      \div (255 * led.brightness[2]) + min)
  IN IF scaled > max THEN max ELSE scaled

\* the off values SetColor computes for red, green and blue
Duties(rgb) ==
  <<SetColor_scale(rgb[1], led.calibration.RedMin, led.calibration.RedMax),
    SetColor_scale(rgb[2], led.calibration.GreenMin, led.calibration.GreenMax),
    SetColor_scale(rgb[3], led.calibration.BlueMin, led.calibration.BlueMax)>>

\* the map literal of SetColor: channel -> {0, off}; of two entries with one key the
\* later one stays
Values(rgb) ==
  [k \in {led.channels[i] : i \in 1 .. 3} |->
     <<0, Duties(rgb)[CHOOSE i \in 1 .. 3 :
                        /\ led.channels[i] = k
                        /\ \A j \in 1 .. 3 : led.channels[j] = k => j <= i]>>]

\* SetColor up to its call l.pca.SetMultiPWM(ctx, values), whose result is SetColor's
Color_build(t) ==
  /\ pc[t] = "Color_build"
  /\ op' = [op EXCEPT ![t].settings = Values(op[t].rgb)]
  /\ pc' = [pc EXCEPT ![t] = "Multi_validate"]
  /\ UNCHANGED <<chanVars, lockVars, Freq, closed, pump, led, regs, ctxDone, sp, loc, io,
                 ret, lastWrite>>

(* ---- FadeChannel: a loop over SetPWM with linear interpolation across 20 steps,
        which returns the cancellation error the first time the token has fired
        between steps ------------------------------------------------------------------ *)
FadeSteps == 20

\* (channel, start, end) arguments: a rising and a falling fade, a fade between equal
\* values, and a fade on the first index past the table
FadeArgs == {<<0, 0, 3000>>, <<0, 4095, 0>>, <<15, 100, 100>>, <<16, 0, 3000>>}

\* the value of step i of FadeSteps on the line from start to end
Interpolate(start, end, i) == (FadeSteps * start + (end - start) * i) \div FadeSteps

CallFadeChannel(t) ==
  \E a \in FadeArgs, cx \in BOOLEAN :
    /\ Begin(t, [NoOp EXCEPT !.name = "FadeChannel", !.ch = a[1], !.on = a[2],
                             !.off = a[3], !.canceled = cx], "Fade_loop")
    /\ sp' = sp

\* one turn of the loop: the end of the fade after step 20, the test of the token,
\* and the call SetPWM(ctx, channel, 0, value) of the next step
Fade_loop(t) ==
  /\ pc[t] = "Fade_loop"
  /\ IF loc[t].i >= FadeSteps
     THEN Return(t, "nil", <<>>) /\ UNCHANGED <<loc, sp>>
     ELSE IF ctxDone[t]
     THEN Return(t, "canceled", <<>>) /\ UNCHANGED <<loc, sp>>
     ELSE /\ loc' = [loc EXCEPT ![t].i = @ + 1]
          /\ sp' = [sp EXCEPT ![t] =
                      [ch |-> op[t].ch, on |-> 0,
                       off |-> Interpolate(op[t].on, op[t].off, loc[t].i + 1),
                       ctx |-> "call"]]
          /\ pc' = [pc EXCEPT ![t] = "SetPWM_enter"]
          /\ ret' = ret
  /\ UNCHANGED <<chanVars, lockVars, Freq, closed, pump, led, regs, op, ctxDone, io,
                 lastWrite>>

(* ---- the calls that follow a call that returned an error --------------------------- *)
\* SetPWM with a live token, called right after a call that returned an error
CallSetPWMAfterError(t) ==
  /\ pc[t] = "done" /\ ret[t].err # "nil"
  /\ \E c \in ChanArgs, v \in PwmArgs :
       /\ Begin(t, [NoOp EXCEPT !.name = "SetPWM", !.ch = c, !.on = v[1], !.off = v[2],
                                !.afterErr = TRUE], "SetPWM_enter")
       /\ sp' = [sp EXCEPT ![t] = [ch |-> c, on |-> v[1], off |-> v[2], ctx |-> "call"]]

\* GetChannelState of the channel that this SetPWM has just written
CallGetAfterRecovery(t) ==
  /\ Returned(t, "SetPWM") /\ op[t].afterErr /\ ret[t].err = "nil"
  /\ Begin(t, [NoOp EXCEPT !.name = "GetChannelState", !.ch = op[t].ch,
                           !.afterErr = TRUE], "Get_enter")
  /\ sp' = sp

(* ---- one goroutine calling the PWM methods of the controller ----------------- *)
\* the goroutine of the single-caller specifications
Caller == CHOOSE t \in Threads : \A u \in Threads : t <= u

Next ==
  \/ CallSetPWM(Caller) \/ SetPWM_enter(Caller) \/ SetPWM_lock(Caller)
  \/ SetPWM_write(Caller) \/ SetPWM_on(Caller) \/ SetPWM_off(Caller)
  \/ CallGet(Caller) \/ Get_enter(Caller) \/ Get_rlock(Caller)
  \/ Get_on(Caller) \/ Get_off(Caller)
  \/ CallSetAllPWM(Caller) \/ SetAll_lock(Caller) \/ SetAll_write(Caller)
  \/ SetAll_loop(Caller) \/ SetAll_on(Caller) \/ SetAll_off(Caller)
  \/ CallSetMultiPWM(Caller) \/ Multi_validate(Caller) \/ Multi_loop(Caller)
  \/ CallEnableChannels(Caller) \/ Enable_iter(Caller) \/ Enable_set(Caller)
  \/ CallDisableChannels(Caller) \/ Disable_iter(Caller) \/ Disable_lock(Caller)
  \/ CancelCtx(Caller)
  \/ CallSetPWMAfterError(Caller) \/ CallGetAfterRecovery(Caller)

Spec == Init /\ [][Next]_vars

(* ---- one goroutine programming the frequency ---------------------------------- *)
NextFreq ==
  \/ CallSetPWMFreq(Caller) \/ Freq_enter(Caller) \/ Freq_lock(Caller)
  \/ Freq_read(Caller) \/ Freq_sleep(Caller) \/ Freq_prescale(Caller)
  \/ Freq_restore(Caller) \/ Freq_restart(Caller)
  \/ CallClose(Caller) \/ Close_run(Caller)

SpecFreq == Init /\ [][NextFreq]_vars

(* ---- SetPWMFreq(f) on the new controller, for every whole f of the range -------- *)
FreqRange == MinFrequency .. MaxFrequency

InitPrescale ==
  /\ InitDevice
  /\ \E f \in FreqRange :
       InitCalls([t \in {Caller} |-> [NoOp EXCEPT !.name = "SetPWMFreq", !.freq = f]],
                 "Freq_enter")

NextPrescale ==
  \/ Freq_enter(Caller) \/ Freq_lock(Caller) \/ Freq_read(Caller)
  \/ Freq_sleep(Caller) \/ Freq_prescale(Caller) \/ Freq_restore(Caller)
  \/ Freq_restart(Caller)

SpecPrescale == InitPrescale /\ [][NextPrescale]_vars

(* ---- SetPWM(c, on, off) on the new controller: every channel with on and off at
        the ends of a byte and of the range, and every on and every off on one
        channel --------------------------------------------------------------------- *)
DutyRange == 0 .. (PwmResolution - 1)
DutyEdges == {0, 255, 256, PwmResolution - 1}

CodecArgs ==
  (Channels \X DutyEdges \X DutyEdges)
    \cup ({0} \X DutyRange \X {0, 255})
    \cup ({15} \X {256, PwmResolution - 1} \X DutyRange)

InitCodec ==
  /\ InitDevice
  /\ \E a \in CodecArgs :
       InitCalls([t \in {Caller} |-> [NoOp EXCEPT !.name = "SetPWM", !.ch = a[1],
                                                  !.on = a[2], !.off = a[3]]],
                 "SetPWM_enter")

NextCodec ==
  \/ SetPWM_enter(Caller) \/ SetPWM_lock(Caller) \/ SetPWM_write(Caller)
  \/ SetPWM_on(Caller) \/ SetPWM_off(Caller)

SpecCodec == InitCodec /\ [][NextCodec]_vars

(* ---- one goroutine constructing controllers over one adapter --------------------- *)
NextNew ==
  \/ CallNew(Caller) \/ Reset_lock(Caller) \/ Reset_write(Caller) \/ New_mode2(Caller)
  \/ Freq_enter(Caller) \/ Freq_lock(Caller) \/ Freq_read(Caller)
  \/ Freq_sleep(Caller) \/ Freq_prescale(Caller) \/ Freq_restore(Caller)
  \/ Freq_restart(Caller)

SpecNew == InitBlank /\ [][NextNew]_vars

(* ---- one goroutine disabling, enabling, writing and reading channels, under the
        scheduler's fairness: a goroutine that can run does run ------------------- *)
NextFair ==
  \/ CallDisableChannels(Caller) \/ Disable_iter(Caller) \/ Disable_lock(Caller)
  \/ CallEnableChannels(Caller) \/ Enable_iter(Caller) \/ Enable_set(Caller)
  \/ CallSetPWM(Caller) \/ SetPWM_enter(Caller) \/ SetPWM_lock(Caller)
  \/ SetPWM_write(Caller) \/ SetPWM_on(Caller) \/ SetPWM_off(Caller)
  \/ CallGet(Caller) \/ Get_enter(Caller) \/ Get_rlock(Caller)
  \/ Get_on(Caller) \/ Get_off(Caller)
  \/ CallClose(Caller) \/ Close_run(Caller)

FairSpec == Init /\ [][NextFair]_vars /\ WF_vars(NextFair)

(* ---- NumThreads goroutines, each writing and reading its own channel
        (TestMultipleChannelsConcurrent) ------------------------------------------- *)
OwnChannel(t) == t - 1

CallOwnSetPWM(t) ==
  \E v \in PwmArgs :
    /\ BeginCall(t, [NoOp EXCEPT !.name = "SetPWM", !.ch = OwnChannel(t), !.on = v[1],
                                 !.off = v[2]], "SetPWM_enter")
    /\ sp' = [sp EXCEPT ![t] = [ch |-> OwnChannel(t), on |-> v[1], off |-> v[2],
                                ctx |-> "call"]]
    /\ lastWrite' = lastWrite

CallOwnGet(t) ==
  /\ BeginCall(t, [NoOp EXCEPT !.name = "GetChannelState", !.ch = OwnChannel(t)],
               "Get_enter")
  /\ UNCHANGED <<sp, lastWrite>>

NextDistinct ==
  \E t \in Threads :
    \/ CallOwnSetPWM(t) \/ SetPWM_enter(t) \/ SetPWM_lock(t)
    \/ SetPWM_write(t) \/ SetPWM_on(t) \/ SetPWM_off(t)
    \/ CallOwnGet(t) \/ Get_enter(t) \/ Get_rlock(t) \/ Get_on(t) \/ Get_off(t)

SpecDistinct == Init /\ [][NextDistinct]_vars

(* ---- one goroutine calling DisableChannels and another, at other times, writing
        and reading: a call begins only when the other goroutine is not inside its
        own call, or waits for a mutex -------------------------------------------- *)
Disabler == CHOOSE t \in Threads : t # Caller

\* the goroutine is between calls, or waits for the channel mutex
Settled(t) == pc[t] \in {"idle", "done", "SetPWM_lock", "Get_rlock"}

LaterDisableChannels == Settled(Caller) /\ CallDisableChannels(Disabler)
LaterSetPWM == Settled(Disabler) /\ CallSetPWM(Caller)
LaterSetAllPWM == Settled(Disabler) /\ CallSetAllPWM(Caller)
LaterGet == Settled(Disabler) /\ CallGet(Caller)

NextAfterDisable ==
  \/ LaterDisableChannels \/ Disable_iter(Disabler) \/ Disable_lock(Disabler)
  \/ SetPWM_enter(Disabler)
  \/ LaterSetPWM \/ SetPWM_enter(Caller) \/ SetPWM_lock(Caller)
  \/ SetPWM_write(Caller) \/ SetPWM_on(Caller) \/ SetPWM_off(Caller)
  \/ LaterSetAllPWM \/ SetAll_lock(Caller) \/ SetAll_write(Caller)
  \/ SetAll_loop(Caller) \/ SetAll_on(Caller) \/ SetAll_off(Caller)
  \/ LaterGet \/ Get_enter(Caller) \/ Get_rlock(Caller)
  \/ Get_on(Caller) \/ Get_off(Caller)

SpecAfterDisable == Init /\ [][NextAfterDisable]_vars

(* ---- one goroutine calling DisableChannels and another, at other times, reading,
        under the scheduler's fairness ---------------------------------------------- *)
NextFairGet ==
  \/ LaterDisableChannels \/ Disable_iter(Disabler) \/ Disable_lock(Disabler)
  \/ SetPWM_enter(Disabler)
  \/ LaterGet \/ Get_enter(Caller) \/ Get_rlock(Caller)
  \/ Get_on(Caller) \/ Get_off(Caller)

FairSpecGet == Init /\ [][NextFairGet]_vars /\ WF_vars(NextFairGet)

(* ---- two goroutines on the controller mutex: one programs the frequency, the
        other programs the frequency, broadcasts, resets, and writes and reads its
        own channel (TestConcurrentFrequencyChange) --------------------------------- *)
Peer == CHOOSE t \in Threads : t # Caller

NextConcurrent ==
  \/ CallSetPWMFreq(Caller) \/ Freq_enter(Caller) \/ Freq_lock(Caller)
  \/ Freq_read(Caller) \/ Freq_sleep(Caller) \/ Freq_prescale(Caller)
  \/ Freq_restore(Caller) \/ Freq_restart(Caller)
  \/ CallSetPWMFreq(Peer) \/ Freq_enter(Peer) \/ Freq_lock(Peer)
  \/ Freq_read(Peer) \/ Freq_sleep(Peer) \/ Freq_prescale(Peer)
  \/ Freq_restore(Peer) \/ Freq_restart(Peer)
  \/ CallSetAllPWM(Peer) \/ SetAll_lock(Peer) \/ SetAll_write(Peer)
  \/ SetAll_loop(Peer) \/ SetAll_on(Peer) \/ SetAll_off(Peer)
  \/ CallReset(Peer) \/ Reset_lock(Peer) \/ Reset_write(Peer)
  \/ CallOwnSetPWM(Peer) \/ SetPWM_enter(Peer) \/ SetPWM_lock(Peer)
  \/ SetPWM_write(Peer) \/ SetPWM_on(Peer) \/ SetPWM_off(Peer)
  \/ CallOwnGet(Peer) \/ Get_enter(Peer) \/ Get_rlock(Peer)
  \/ Get_on(Peer) \/ Get_off(Peer)

SpecConcurrent == Init /\ [][NextConcurrent]_vars

(* ---- one goroutine driving a pump: construction with and without the limits
        option, new limits, speeds, stops and read-backs ----------------------------- *)
NextPump ==
  \/ CallNewPump(Caller) \/ NewPump_init(Caller)
  \/ Enable_iter(Caller) \/ Enable_set(Caller)
  \/ CallSetSpeedLimits(Caller) \/ Limits_check(Caller)
  \/ CallSetSpeed(Caller) \/ CallStop(Caller) \/ Speed_check(Caller)
  \/ SetPWM_enter(Caller) \/ SetPWM_lock(Caller) \/ SetPWM_write(Caller)
  \/ SetPWM_on(Caller) \/ SetPWM_off(Caller)
  \/ CallGetCurrentSpeed(Caller) \/ Get_enter(Caller) \/ Get_rlock(Caller)
  \/ Get_on(Caller) \/ Get_off(Caller)

SpecPump == Init /\ [][NextPump]_vars

(* ---- SetSpeed(p) and then GetCurrentSpeed() for every whole percent p, on a pump
        with the limits (1000, 3500) and on one with the default limits ------------- *)
PercentRange == 0 .. 100
RoundTripLimits == {<<1000, 3500>>, <<0, MaxDuty>>}

InitRoundTrip ==
  /\ InitController
  /\ led = DefaultLed
  /\ \E l \in RoundTripLimits :
       pump = [channel |-> 0, minSpeed |-> WithSpeedLimits(l[1], l[2]).minSpeed,
               maxSpeed |-> WithSpeedLimits(l[1], l[2]).maxSpeed]
  /\ \E p \in PercentRange :
       InitCalls([t \in {Caller} |-> [NoOp EXCEPT !.name = "SetSpeed", !.percent = p]],
                 "Speed_check")

NextRoundTrip ==
  \/ Speed_check(Caller)
  \/ SetPWM_enter(Caller) \/ SetPWM_lock(Caller) \/ SetPWM_write(Caller)
  \/ SetPWM_on(Caller) \/ SetPWM_off(Caller)
  \/ (Returned(Caller, "SetSpeed") /\ CallGetCurrentSpeed(Caller))
  \/ Get_enter(Caller) \/ Get_rlock(Caller) \/ Get_on(Caller) \/ Get_off(Caller)

SpecRoundTrip == InitRoundTrip /\ [][NextRoundTrip]_vars

(* ---- SetColor(r, g, b) on a led over channels 0, 1 and 2: every level on red, at
        several brightnesses and calibrations ---------------------------------------- *)
LevelRange == 0 .. 255
\* the colours: every red level beside green 0 and blue 128, and white
ColorArgs == {<<v, 0, 128>> : v \in LevelRange} \cup {<<255, 255, 255>>}
\* brightness as <<numerator, denominator>>: values SetBrightness accepts
BrightnessArgs == {<<0, 1>>, <<1, 2>>, <<1, 1>>}
\* calibrations with min <= max on every channel
CalibrationArgs ==
  { DefaultRGBCalibration,
    [RedMin |-> 1000, RedMax |-> 3500, GreenMin |-> 0, GreenMax |-> MaxDuty,
     BlueMin |-> 2000, BlueMax |-> 2000] }

InitColor ==
  /\ InitController
  /\ pump = DefaultPump
  /\ \E b \in BrightnessArgs, cal \in CalibrationArgs :
       led = [channels |-> <<0, 1, 2>>, brightness |-> b, calibration |-> cal]
  /\ \E c \in ColorArgs :
       InitCalls([t \in {Caller} |-> [NoOp EXCEPT !.name = "SetColor", !.rgb = c]],
                 "Color_build")

NextColor ==
  \/ Color_build(Caller) \/ Multi_validate(Caller) \/ Multi_loop(Caller)
  \/ SetPWM_enter(Caller) \/ SetPWM_lock(Caller) \/ SetPWM_write(Caller)
  \/ SetPWM_on(Caller) \/ SetPWM_off(Caller)

SpecColor == InitColor /\ [][NextColor]_vars

(* ---- one goroutine fading channels, its token firing at any moment --------------- *)
NextFade ==
  \/ CallFadeChannel(Caller) \/ Fade_loop(Caller)
  \/ SetPWM_enter(Caller) \/ SetPWM_lock(Caller) \/ SetPWM_write(Caller)
  \/ SetPWM_on(Caller) \/ SetPWM_off(Caller)
  \/ CancelCtx(Caller)

SpecFade == Init /\ [][NextFade]_vars

\* the goroutine runs on: a step that can be taken is taken
FairSpecFade == Init /\ [][NextFade]_vars /\ WF_vars(NextFade)

(* ---- one goroutine writing channels and resetting the controller ----------------- *)
NextReset ==
  \/ CallSetPWM(Caller) \/ SetPWM_enter(Caller) \/ SetPWM_lock(Caller)
  \/ SetPWM_write(Caller) \/ SetPWM_on(Caller) \/ SetPWM_off(Caller)
  \/ CallReset(Caller) \/ Reset_lock(Caller) \/ Reset_write(Caller)

SpecReset == Init /\ [][NextReset]_vars

(* ---- one goroutine writing and reading channel 0 while another broadcasts -------- *)
SharedChannel == 0

CallSharedSetPWM(t) ==
  \E v \in PwmArgs :
    /\ BeginCall(t, [NoOp EXCEPT !.name = "SetPWM", !.ch = SharedChannel, !.on = v[1],
                                 !.off = v[2]], "SetPWM_enter")
    /\ sp' = [sp EXCEPT ![t] = [ch |-> SharedChannel, on |-> v[1], off |-> v[2],
                                ctx |-> "call"]]
    /\ lastWrite' = lastWrite

CallSharedGet(t) ==
  /\ BeginCall(t, [NoOp EXCEPT !.name = "GetChannelState", !.ch = SharedChannel],
               "Get_enter")
  /\ UNCHANGED <<sp, lastWrite>>

NextRace ==
  \/ CallSharedSetPWM(Caller) \/ SetPWM_enter(Caller) \/ SetPWM_lock(Caller)
  \/ SetPWM_write(Caller) \/ SetPWM_on(Caller) \/ SetPWM_off(Caller)
  \/ CallSharedGet(Caller) \/ Get_enter(Caller) \/ Get_rlock(Caller)
  \/ Get_on(Caller) \/ Get_off(Caller)
  \/ CallSetAllPWM(Peer) \/ SetAll_lock(Peer) \/ SetAll_write(Peer)
  \/ SetAll_loop(Peer) \/ SetAll_on(Peer) \/ SetAll_off(Peer)

SpecRace == Init /\ [][NextRace]_vars

(* ---- SetPWMFreq(f) and SetPWMFreq(f + 1) on the new controller, from two
        goroutines, for every whole f of the range ---------------------------------- *)
InitNeighbours ==
  /\ InitDevice
  /\ \E f \in MinFrequency .. (MaxFrequency - 1) :
       InitCalls([t \in {Caller, Peer} |->
                    [NoOp EXCEPT !.name = "SetPWMFreq",
                                 !.freq = IF t = Caller THEN f ELSE f + 1]],
                 "Freq_enter")

NextNeighbours ==
  \E t \in {Caller, Peer} :
    \/ Freq_enter(t) \/ Freq_lock(t) \/ Freq_read(t) \/ Freq_sleep(t)
    \/ Freq_prescale(t) \/ Freq_restore(t) \/ Freq_restart(t)

SpecNeighbours == InitNeighbours /\ [][NextNeighbours]_vars

(* ---- one goroutine that closes the controller and goes on calling it ------------- *)
NextClosed ==
  \/ CallClose(Caller) \/ Close_run(Caller)
  \/ CallSetPWM(Caller) \/ SetPWM_enter(Caller) \/ SetPWM_lock(Caller)
  \/ SetPWM_write(Caller) \/ SetPWM_on(Caller) \/ SetPWM_off(Caller)
  \/ CallSetAllPWM(Caller) \/ SetAll_lock(Caller) \/ SetAll_write(Caller)
  \/ SetAll_loop(Caller) \/ SetAll_on(Caller) \/ SetAll_off(Caller)
  \/ CallSetPWMFreq(Caller) \/ Freq_enter(Caller) \/ Freq_lock(Caller)
  \/ Freq_read(Caller) \/ Freq_sleep(Caller) \/ Freq_prescale(Caller)
  \/ Freq_restore(Caller) \/ Freq_restart(Caller)

SpecClosed == Init /\ [][NextClosed]_vars

(* ======================= the claims ========================================== *)
InRange(x) == x \in 0 .. 4095

\* C1: GetChannelState(c) called right after a successful SetPWM(c, on, off) with
\* on and off in 0..4095 returns without error exactly that on and that off.
C1_SetThenGet ==
  \A t \in Threads :
    ( /\ Returned(t, "GetChannelState")
      /\ lastWrite[t] # <<>>
      /\ lastWrite[t][1] = op[t].ch
      /\ InRange(lastWrite[t][2]) /\ InRange(lastWrite[t][3]) )
    => ( /\ ret[t].err = "nil"
         /\ ret[t].val[2] = lastWrite[t][2]
         /\ ret[t].val[3] = lastWrite[t][3] )

C1_Witness ==
  /\ Returned(Caller, "GetChannelState")
  /\ lastWrite[Caller] = <<15, 291, 4095>>
  /\ op[Caller].ch = 15
  /\ ret[Caller] = Result("nil", <<TRUE, 291, 4095>>)

\* the mutex a goroutine waits for, as the set of goroutines holding it
Blockers(t) ==
  CASE pc[t] = "SetPWM_lock" -> {chMu[sp[t].ch].w} \cup chMu[sp[t].ch].r
    [] pc[t] = "Get_rlock" -> {chMu[op[t].ch].w}
    [] pc[t] \in {"Enable_set", "Disable_lock"} ->
         {chMu[op[t].chans[loc[t].i + 1]].w} \cup chMu[op[t].chans[loc[t].i + 1]].r
    [] pc[t] \in {"SetAll_lock", "Freq_lock"} -> {mu}
    [] OTHER -> {}

\* C2: no goroutine waits for a mutex that it holds itself (such a wait never ends).
C2_NoSelfDeadlock == \A t \in Threads : t \notin Blockers(t)

\* C3: a DisableChannels call that has passed validation of a channel returns to
\* its caller.
C3_DisableReturns ==
  \A t \in Threads : (pc[t] = "Disable_lock") ~> (Returned(t, "DisableChannels"))

\* a bus write of on = 0, off = 0 to the registers of some channel is among the
\* accesses of t's DisableChannels call
WroteZero(t) ==
  /\ op[t].name = "DisableChannels"
  /\ \E i \in 1 .. Len(io[t]) :
       /\ io[t][i].kind = "w"
       /\ io[t][i].data = <<0, 0, 0, 0>>
       /\ io[t][i].reg \in {BaseReg(c) : c \in Channels}

\* C4: DisableChannels(c) on an enabled channel, with pca.ctx not canceled, issues
\* the bus write of on = 0, off = 0 to the registers of c.
C4_DisableWritesZero ==
  \A t \in Threads :
    (pc[t] = "Disable_lock" /\ enabled[op[t].chans[loc[t].i + 1]] /\ ~closed)
      ~> WroteZero(t)

\* C5: a SetPWM that runs on a channel whose enabled flag is false fails with the
\* disabled-channel error.
C5_DisabledRejected ==
  \A t \in Threads :
    (pc[t] \in {"SetPWM_lock", "SetPWM_write"} /\ ~enabled[sp[t].ch])
      ~> (pc[t] = "done" /\ ret[t].err = "disabled")

\* a step of SetPWM, SetAllPWM or SetMultiPWM called by Caller with a token that was
\* canceled before the call (for SetMultiPWM: with a map among maps): the step
\* reaches no bus access and no channel's record, and a return is a return of an error
PreCanceledStep(maps) ==
  ( /\ op[Caller].name \in {"SetPWM", "SetAllPWM", "SetMultiPWM"}
    /\ op[Caller].name = "SetMultiPWM" => op[Caller].settings \in maps
    /\ op[Caller].canceled
    /\ pc[Caller] # "done" )
  => ( /\ UNCHANGED chanVars
       /\ io'[Caller] = <<>>
       /\ pc'[Caller] = "done" => ret'[Caller].err \notin {"nil", "pending"} )

\* C6, as claimed: with a token canceled before the call, SetPWM, SetAllPWM and
\* SetMultiPWM with every settings map return an error, issue no bus write and
\* change no channel's record.
C6_Claimed == [][PreCanceledStep(SettingsArgs)]_vars

\* C6, amended: the same for SetPWM, SetAllPWM and SetMultiPWM with every settings
\* map that has at least one entry.
C6_PreCanceled == [][PreCanceledStep(SettingsArgs \ {EmptyMap})]_vars

C6_Witness ==
  /\ Returned(Caller, "SetMultiPWM")
  /\ op[Caller].canceled
  /\ DOMAIN op[Caller].settings = {0, 15}
  /\ ret[Caller].err = "canceled"
  /\ io[Caller] = <<>>

\* C7: every channel's recorded on and off are within 0..4095.
C7_DutyInRange == \A c \in Channels : InRange(on[c]) /\ InRange(off[c])

\* C8: with every goroutine writing and reading its own channel, a GetChannelState
\* returns the on and off of the goroutine's last successful SetPWM, and when no
\* call is running every channel records its own goroutine's last successful write
\* (the initial zeros where there was none).
C8_DistinctWriters ==
  /\ \A t \in Threads :
       (Returned(t, "GetChannelState") /\ lastWrite[t] # <<>>)
         => (ret[t].err = "nil" /\ <<ret[t].val[2], ret[t].val[3]>>
                                     = <<lastWrite[t][2], lastWrite[t][3]>>)
  /\ (\A t \in Threads : Quiet(t))
       => \A c \in Channels :
            /\ \A t \in Threads :
                 (OwnChannel(t) = c /\ lastWrite[t] # <<>>)
                   => <<on[c], off[c]>> = <<lastWrite[t][2], lastWrite[t][3]>>
            /\ (\A t \in Threads : OwnChannel(t) = c => lastWrite[t] = <<>>)
                   => <<on[c], off[c]>> = <<0, 0>>

C8_Witness ==
  /\ \A t \in Threads : Quiet(t)
  /\ lastWrite[1] = <<0, 291, 4095>> /\ lastWrite[2] = <<1, 0, 4096>>
  /\ Returned(1, "GetChannelState") /\ ret[1].val = <<TRUE, 291, 4095>>
  /\ <<on[1], off[1]>> = <<0, 4096>>

\* every bus access of t's current call succeeded
AllOk(log) == \A i \in 1 .. Len(log) : log[i].ok

\* C9: SetPWMFreq(hz) with hz < 24 or hz > 1526 returns the range error having
\* touched neither the bus nor the recorded frequency; with 24 <= hz <= 1526 and
\* every bus access succeeding it returns nil and the recorded frequency is hz.
C9_Step ==
  \A t \in Threads :
    (op[t].name = "SetPWMFreq" /\ pc[t] # "done")
    => IF op[t].freq < 24 \/ op[t].freq > 1526
       THEN /\ Freq' = Freq /\ regs' = regs /\ io'[t] = <<>>
            /\ pc'[t] = "done" => ret'[t].err = "freq_range"
       ELSE (pc'[t] = "done" /\ AllOk(io'[t]))
              => (ret'[t].err = "nil" /\ Freq' = op[t].freq /\ Len(io'[t]) = 5)

C9_FrequencyRange == [][C9_Step]_vars

C9_Witness ==
  /\ Returned(Caller, "SetPWMFreq")
  /\ op[Caller].freq = 24
  /\ ret[Caller].err = "nil"
  /\ Freq = 24

\* C10: a SetPWMFreq call in which a bus access failed returns the bus error, and
\* the recorded frequency changes only in the step that ends a call whose five bus
\* accesses all succeeded.
C10_Step ==
  /\ \A t \in Threads :
       (op[t].name = "SetPWMFreq" /\ pc[t] # "done" /\ pc'[t] = "done" /\ ~AllOk(io'[t]))
         => (ret'[t].err = "bus" /\ Freq' = Freq)
  /\ Freq' # Freq
       => \E t \in Threads :
            /\ op[t].name = "SetPWMFreq" /\ pc[t] # "done" /\ pc'[t] = "done"
            /\ Len(io'[t]) = 5 /\ AllOk(io'[t])
            /\ ret'[t].err = "nil"

C10_FrequencyKept == [][C10_Step]_vars

C10_Witness ==
  /\ Returned(Caller, "SetPWMFreq")
  /\ op[Caller].freq = 1526
  /\ ret[Caller].err = "bus"
  /\ Len(io[Caller]) = 5
  /\ Freq = DefaultFreq

\* every bit of mask is set in x
HasBits(x, mask) == BitOr(x, mask) = x
NoBits(x, mask) == BitOr(x, mask) = x + mask

IsWrite(a, reg) == a.kind = "w" /\ a.reg = reg

\* the five accesses of SetPWMFreq, in order
FreqSequence(log) ==
  /\ Len(log) = 5
  /\ log[1].kind = "r" /\ log[1].reg = RegMode1 /\ Len(log[1].data) = 1
  /\ IsWrite(log[2], RegMode1) /\ Len(log[2].data) = 1
  /\ HasBits(log[2].data[1], Mode1Sleep) /\ NoBits(log[2].data[1], Mode1Restart)
  /\ IsWrite(log[3], RegPrescale) /\ Len(log[3].data) = 1
  /\ IsWrite(log[4], RegMode1) /\ log[4].data = log[1].data
  /\ IsWrite(log[5], RegMode1) /\ Len(log[5].data) = 1
  /\ HasBits(log[5].data[1], Mode1Restart) /\ HasBits(log[5].data[1], Mode1AutoInc)

\* the write to MODE1 that comes last before access i of log has the sleep bit set
SleepsBefore(log, i) ==
  \E j \in 1 .. (i - 1) :
    /\ IsWrite(log[j], RegMode1) /\ log[j].ok
    /\ HasBits(log[j].data[1], Mode1Sleep)
    /\ \A k \in (j + 1) .. (i - 1) : ~IsWrite(log[k], RegMode1)

\* C11: a SetPWMFreq that returned nil made exactly five bus accesses: the read of
\* MODE1 (m), the write of MODE1 with the sleep bit set and the restart bit clear,
\* the write of PRESCALE, the write of MODE1 = m, the write of MODE1 with the restart
\* and auto-increment bits set; and every write of PRESCALE comes after a write of
\* MODE1 with the sleep bit set, with no other write of MODE1 in between.
C11_FreqSequence ==
  \A t \in Threads :
    /\ (Returned(t, "SetPWMFreq") /\ ret[t].err = "nil") => FreqSequence(io[t])
    /\ \A i \in 1 .. Len(io[t]) : IsWrite(io[t][i], RegPrescale) => SleepsBefore(io[t], i)

C11_Witness ==
  /\ Returned(Caller, "SetPWMFreq")
  /\ ret[Caller].err = "nil"
  /\ op[Caller].freq = 1526
  /\ io[Caller][1].data = <<176>>
  /\ io[Caller][2].data = <<48>>
  /\ io[Caller][5].data = <<176>>

\* p is round(OscClock / (PwmResolution * f)) - 1, halves rounded away from zero, and
\* 3 when that is less than 3: r is the whole number nearest to the quotient
IsPrescale(p, f) ==
  \E r \in 0 .. 256 :
    /\ (2 * r - 1) * (PwmResolution * f) <= 2 * OscClock
    /\ 2 * OscClock < (2 * r + 1) * (PwmResolution * f)
    /\ p = IF r - 1 > 3 THEN r - 1 ELSE 3

\* C12: for every whole f in 24..1526 the byte SetPWMFreq(f) writes to PRESCALE is
\* max(3, round(25000000 / (4096 * f)) - 1); for f = 1000 it is 5.
C12_PrescaleByte ==
  \A t \in Threads : \A i \in 1 .. Len(io[t]) :
    (op[t].name = "SetPWMFreq" /\ IsWrite(io[t][i], RegPrescale))
      => /\ Len(io[t][i].data) = 1
         /\ IsPrescale(io[t][i].data[1], op[t].freq)
         /\ op[t].freq = 1000 => io[t][i].data = <<5>>

C12_Witness ==
  /\ Returned(Caller, "SetPWMFreq")
  /\ op[Caller].freq = 1000
  /\ ret[Caller].err = "nil"
  /\ IsWrite(io[Caller][3], RegPrescale)
  /\ io[Caller][3].data = <<5>> /\ io[Caller][3].ok

ValidationErrors == {"invalid_channel", "freq_range"}

\* C13: an operation that returned a validation error (channel index outside 0..15,
\* frequency outside 24..1526) made no bus access before it returned; New with an
\* initial frequency out of range included.
C13_ValidationBeforeBus ==
  \A t \in Threads :
    (pc[t] = "done" /\ ret[t].err \in ValidationErrors) => io[t] = <<>>

\* the list has an index outside 0..15
HasInvalid(l) == \E i \in 1 .. Len(l) : validateChannel(l[i]) # "nil"

\* C14: no step of an EnableChannels or DisableChannels call whose list has an index
\* outside 0..15 changes a channel's enabled flag.
C14_Step ==
  \A t \in Threads :
    ( /\ op[t].name \in {"EnableChannels", "DisableChannels"}
      /\ pc[t] # "done"
      /\ HasInvalid(op[t].chans) )
    => enabled' = enabled

C14_NoPartialState == [][C14_Step]_vars

\* C15: SetMultiPWM with a map that has a key outside 0..15 makes no bus access and
\* changes no channel's record in any of its steps, and returns the invalid-channel
\* error, whatever valid keys the map has and in whatever order the map is ranged.
C15_Step ==
  \A t \in Threads :
    ( /\ op[t].name = "SetMultiPWM"
      /\ pc[t] # "done"
      /\ \E k \in DOMAIN op[t].settings : k \notin Channels )
    => ( /\ UNCHANGED chanVars
         /\ io'[t] = <<>>
         /\ regs' = regs
         /\ pc'[t] = "done" => ret'[t].err = "invalid_channel" )

C15_MultiInvalidKey == [][C15_Step]_vars

C15_Witness ==
  /\ Returned(Caller, "SetMultiPWM")
  /\ DOMAIN op[Caller].settings = {15, 16}
  /\ ~op[Caller].canceled
  /\ ret[Caller].err = "invalid_channel"
  /\ io[Caller] = <<>>

\* the bus write of entry k of t's settings map is among the accesses of t's call,
\* and it succeeded
Written(t, k) ==
  \E i \in 1 .. Len(io[t]) :
    /\ IsWrite(io[t][i], BaseReg(k)) /\ io[t][i].ok
    /\ io[t][i].data = PwmBytes(op[t].settings[k][1], op[t].settings[k][2])

\* a step of a SetMultiPWM call over valid keys: a failed write or a token found
\* fired ends the call at once with that error; the step that ends the call with an
\* error changes no record; a record that changes is the on or off of an entry whose
\* write succeeded, and it becomes the entry's value
C16_Step ==
  \A t \in Threads :
    ( /\ op[t].name = "SetMultiPWM"
      /\ pc[t] # "done"
      /\ DOMAIN op[t].settings \subseteq Channels )
    => ( /\ enabled' = enabled
         /\ \A c \in Channels :
              (on'[c] # on[c] \/ off'[c] # off[c])
                => ( /\ c \in DOMAIN op[t].settings
                     /\ Written(t, c)
                     /\ on'[c] \in {on[c], op[t].settings[c][1]}
                     /\ off'[c] \in {off[c], op[t].settings[c][2]} )
         /\ (io'[t] # io[t] /\ ~io'[t][Len(io'[t])].ok)
              => (pc'[t] = "done" /\ ret'[t].err = "bus")
         /\ (pc[t] = "Multi_loop" /\ loc[t].rem # {} /\ ctxDone[t])
              => (pc'[t] = "done" /\ ret'[t].err = "canceled" /\ io'[t] = io[t])
         /\ (pc'[t] = "done" /\ ret'[t].err # "nil")
              => ( /\ UNCHANGED chanVars
                   /\ AllOk(io[t])
                   /\ ret'[t].err \in {"bus", "canceled", "disabled"} ) )

\* when SetMultiPWM over valid keys has returned an error: every entry whose write
\* succeeded is recorded, and at least one entry was not written
C16_Done ==
  \A t \in Threads :
    ( /\ Returned(t, "SetMultiPWM")
      /\ ret[t].err # "nil"
      /\ DOMAIN op[t].settings \subseteq Channels )
    => ( /\ \A k \in DOMAIN op[t].settings :
              Written(t, k) => <<on[k], off[k]>> = op[t].settings[k]
         /\ \E k \in DOMAIN op[t].settings : ~Written(t, k)
         /\ \A i \in 1 .. Len(io[t]) : io[t][i].ok <=> i < Len(io[t]) \/ ret[t].err # "bus" )

AllWrite(t, ok) ==
  [kind |-> "w", reg |-> RegAllLed, data |-> PwmBytes(op[t].on, op[t].off), ok |-> ok,
   during |-> {}]

\* a step of a SetAllPWM call: its only bus access is the write to RegAllLed; no
\* enabled flag changes; a record that changes is the on or off of an enabled channel,
\* after the write succeeded, and it becomes the argument
C17_Step ==
  \A t \in Threads :
    (op[t].name = "SetAllPWM" /\ pc[t] # "done")
    => ( /\ enabled' = enabled
         /\ io'[t] # io[t] => (io[t] = <<>> /\ \E ok \in BOOLEAN : io'[t] = <<AllWrite(t, ok)>>)
         /\ \A c \in Channels :
              (on'[c] # on[c] \/ off'[c] # off[c])
                => ( /\ enabled[c]
                     /\ io[t] = <<AllWrite(t, TRUE)>>
                     /\ on'[c] \in {on[c], op[t].on}
                     /\ off'[c] \in {off[c], op[t].off} ) )

\* when SetAllPWM has returned nil: it made the one write, and every enabled channel
\* records the arguments
C17_Done ==
  \A t \in Threads :
    (Returned(t, "SetAllPWM") /\ ret[t].err = "nil")
    => ( /\ io[t] = <<AllWrite(t, TRUE)>>
         /\ \A c \in Channels : enabled[c] => <<on[c], off[c]>> = <<op[t].on, op[t].off>> )

\* C17: a SetAllPWM that returns nil made exactly one bus write, to register 0xFA,
\* and then every enabled channel records the arguments while the records of the
\* disabled channels and every enabled flag are as before; when the write fails no
\* record changes.
C17_SetAllFrame == [] C17_Done /\ [][C17_Step]_vars

C17_Witness ==
  /\ Returned(Caller, "SetAllPWM")
  /\ ret[Caller].err = "nil"
  /\ <<op[Caller].on, op[Caller].off>> = <<291, 4095>>
  /\ ~enabled[0]
  /\ <<on[0], off[0]>> = <<0, 4096>>
  /\ \A c \in Channels \ {0} : enabled[c] /\ <<on[c], off[c]>> = <<291, 4095>>

\* the registers that SetPWMFreq, SetAllPWM, Reset and New access
SharedRegs == {RegMode1, RegMode2, RegPrescale, RegAllLed}

\* C18: no bus access of SetAllPWM, of Reset or of a SetPWMFreq reaches the bus while
\* another goroutine is inside its SetPWMFreq sequence; a SetPWM or GetChannelState
\* that runs meanwhile on a valid channel returns nil unless its own bus write failed.
C18_FreqExclusive ==
  \A t \in Threads :
    /\ \A i \in 1 .. Len(io[t]) : io[t][i].reg \in SharedRegs => io[t][i].during = {}
    /\ (Returned(t, "SetPWM") /\ AllOk(io[t])) => ret[t].err = "nil"
    /\ Returned(t, "GetChannelState") => ret[t].err = "nil"

\* the other goroutine's SetPWM wrote and returned nil while Caller holds pca.mu
\* inside its sequence
C18_Witness ==
  /\ pc[Caller] = "Freq_restart"
  /\ mu = Caller
  /\ Returned(Peer, "SetPWM")
  /\ ret[Peer].err = "nil"
  /\ Len(io[Peer]) = 1
  /\ io[Peer][1].during = {Caller}

\* goroutine t holds none of the controller's mutexes
HoldsNoLock(t) == mu # t /\ \A c \in Channels : chMu[c].w # t /\ t \notin chMu[c].r

\* C20: a goroutine whose call has returned an error holds none of the controller's
\* mutexes; the SetPWM it calls next on a valid enabled channel, with a token that
\* does not fire and a bus write that succeeds, never waits, returns nil and records
\* its arguments, and the GetChannelState after it returns them.
C20_UsableAfterError ==
  \A t \in Threads :
    /\ (pc[t] = "done" /\ ret[t].err # "nil") => HoldsNoLock(t)
    /\ (op[t].afterErr /\ pc[t] = "SetPWM_lock") => chMu[sp[t].ch] = Free
    /\ ( /\ Returned(t, "SetPWM") /\ op[t].afterErr
         /\ op[t].ch \in Channels /\ enabled[op[t].ch]
         /\ ~ctxDone[t] /\ AllOk(io[t]) )
       => ( /\ ret[t].err = "nil"
            /\ <<on[op[t].ch], off[op[t].ch]>> = <<op[t].on, op[t].off>> )
    /\ (Returned(t, "GetChannelState") /\ op[t].afterErr)
       => ( /\ Len(lastWrite[t]) = 3 /\ lastWrite[t][1] = op[t].ch
            /\ ret[t] = Result("nil", <<TRUE, lastWrite[t][2], lastWrite[t][3]>>) )

C20_Witness ==
  /\ Returned(Caller, "GetChannelState")
  /\ op[Caller].afterErr
  /\ op[Caller].ch = 15
  /\ ret[Caller] = Result("nil", <<TRUE, 291, 4095>>)

\* C19: a GetChannelState call on a valid channel returns, without error.
C19_GetReturns ==
  \A t \in Threads :
    (pc[t] = "Get_enter" /\ op[t].ch \in Channels)
      ~> (Returned(t, "GetChannelState") /\ ret[t].err = "nil")

\* C21: no call makes a bus access when its token has fired: neither the caller's
\* token nor, for the methods that take none, the controller's own (pca.ctx, which
\* Close cancels).
C21_Step ==
  \A t \in Threads :
    Len(io'[t]) > Len(io[t]) => (~ctxDone[t] /\ ~closed)

C21_TokenBeforeWrite == [][C21_Step]_vars

\* C30: the pattern last commanded to a channel whose enabled flag is false is
\* on = 0, off = 0.
C30_DisabledIsZero ==
  \A c \in Channels : ~enabled[c] => regs[BaseReg(c)] = PwmBytes(0, 0)

\* C22: when New has returned, it returned the controller exactly when it returned
\* no error, and it returned an error exactly when the initial frequency is outside
\* 24..1526 or one of its bus accesses failed; the controller returned has every
\* channel enabled with on = off = 0, and its recorded frequency is the configured
\* one.
C22_NewAllOrNothing ==
  \A t \in Threads :
    Returned(t, "New")
    => ( /\ ret[t].val = <<"pca">> <=> ret[t].err = "nil"
         /\ ret[t].val \in {<<>>, <<"pca">>}
         /\ ret[t].err # "nil" <=> (~AllOk(io[t]) \/ op[t].freq \notin 24 .. 1526)
         /\ ret[t].err = "nil"
              => ( /\ \A c \in Channels : enabled[c] /\ on[c] = 0 /\ off[c] = 0
                   /\ Freq = op[t].freq
                   /\ Len(io[t]) = 7 ) )

C22_Witness ==
  /\ Returned(Caller, "New")
  /\ op[Caller].freq = DefaultFreq
  /\ ret[Caller] = Result("nil", <<"pca">>)
  /\ Freq = DefaultFreq
  /\ regs[RegPrescale] = <<5>>

\* the value of two bytes, the low one first
LittleEndian(lo, hi) == lo + 256 * hi

\* the four registers of channel c
LedRange(c) == (6 + 4 * c) .. (6 + 4 * c + 3)

\* C23: the bus write of SetPWM(c, on, off), c in 0..15 and on, off in 0..4095, is
\* of four bytes to register 0x06 + 4c, the low byte of on, its high byte, the low
\* byte of off, its high byte, so that reading them little-endian gives on and off;
\* the four registers of a channel are shared with no other channel and are none of
\* 0x00, 0x01, 0xFA..0xFD, 0xFE.
C23_PwmEncoding ==
  /\ \A t \in Threads : \A i \in 1 .. Len(io[t]) :
       (op[t].name = "SetPWM" /\ InRange(op[t].on) /\ InRange(op[t].off))
         => ( /\ io[t][i].kind = "w"
              /\ io[t][i].reg = 6 + 4 * op[t].ch
              /\ Len(io[t][i].data) = 4
              /\ \A j \in 1 .. 4 : io[t][i].data[j] \in 0 .. 255
              /\ io[t][i].data[1] = op[t].on % 256
              /\ io[t][i].data[2] = op[t].on \div 256
              /\ io[t][i].data[3] = op[t].off % 256
              /\ io[t][i].data[4] = op[t].off \div 256
              /\ LittleEndian(io[t][i].data[1], io[t][i].data[2]) = op[t].on
              /\ LittleEndian(io[t][i].data[3], io[t][i].data[4]) = op[t].off )
  /\ \A c \in Channels :
       /\ BaseReg(c) \in LedRange(c)
       /\ LedRange(c) \cap ({0, 1, 254} \cup (250 .. 253)) = {}
       /\ \A d \in Channels \ {c} : LedRange(c) \cap LedRange(d) = {}

C23_Witness ==
  /\ Returned(Caller, "SetPWM")
  /\ <<op[Caller].ch, op[Caller].on, op[Caller].off>> = <<15, 256, 4095>>
  /\ ret[Caller].err = "nil"
  /\ io[Caller][1].reg = 66
  /\ io[Caller][1].data = <<0, 1, 255, 15>>
  /\ regs[66] = <<0, 1, 255, 15>>

(* ---- the pump ---------------------------------------------------------------------- *)
\* the limits a pump accepts
Accepted(min, max) == 0 <= min /\ min <= max /\ max <= 4095

\* GetCurrentSpeed has returned, right after a SetSpeed or Stop that returned nil
ReadBack(t) == Returned(t, "GetCurrentSpeed") /\ op[t].after \in {"SetSpeed", "Stop"}

\* C24: with the limits (1000, 3500), SetSpeed(p) followed by GetCurrentSpeed()
\* returns p for every whole percent p in 0..100, and with the default limits
\* (0, 4095) it does so at p = 50.
C24_RoundTrip ==
  \A t \in Threads :
    ( /\ ReadBack(t)
      /\ \/ <<pump.minSpeed, pump.maxSpeed>> = <<1000, 3500>>
         \/ <<pump.minSpeed, pump.maxSpeed>> = <<0, 4095>> /\ op[t].percent = 50 )
    => ret[t] = Result("nil", <<op[t].percent>>)

C24_Witness ==
  /\ ReadBack(Caller)
  /\ <<pump.minSpeed, pump.maxSpeed>> = <<1000, 3500>>
  /\ op[Caller].percent = 50
  /\ off[0] = 2250
  /\ ret[Caller] = Result("nil", <<50>>)

\* C25 as claimed: for every accepted pair of limits, GetCurrentSpeed returns 0 after
\* SetSpeed(0) and after Stop, and 100 after SetSpeed(100).
C25_Claimed ==
  \A t \in Threads :
    (ReadBack(t) /\ Accepted(pump.minSpeed, pump.maxSpeed))
    => ( /\ op[t].percent = 0 => ret[t] = Result("nil", <<0>>)
         /\ op[t].percent = 100 => ret[t] = Result("nil", <<100>>) )

\* C25: for every accepted pair of limits, GetCurrentSpeed returns 0 after SetSpeed(0)
\* and after Stop; after SetSpeed(100) it returns 100 when min < max, and 0 when
\* min = max (the duty is then min, which reads back as 0).
C25_Boundary ==
  \A t \in Threads :
    (ReadBack(t) /\ Accepted(pump.minSpeed, pump.maxSpeed))
    => ( /\ op[t].percent = 0 => ret[t] = Result("nil", <<0>>)
         /\ op[t].percent = 100 =>
              ret[t] = Result("nil", <<IF pump.minSpeed < pump.maxSpeed THEN 100 ELSE 0>>) )

C25_Witness ==
  /\ ReadBack(Caller) /\ op[Caller].after = "SetSpeed"
  /\ <<pump.minSpeed, pump.maxSpeed>> = <<1000, 4095>>
  /\ op[Caller].percent = 100
  /\ off[0] = 4095
  /\ ret[Caller] = Result("nil", <<100>>)

\* the duty and the percent of the scaling laws under the limits (min, max)
DutyOf(percent, min, max) == ((2 * percent * (max - min) + 100) \div 200) + min
PercentOf(duty, min, max) ==
  IF duty <= min THEN 0
  ELSE IF duty >= max THEN 100
  ELSE (2 * (duty - min) * 100 + (max - min)) \div (2 * (max - min))

\* SetSpeedLimits(min, max) returns: with an error, the limits as they were and no bus
\* access, when min > max or max > 4095; with nil and the limits (min, max) otherwise
C26_Step ==
  \A t \in Threads :
    (pc[t] = "Limits_check" /\ pc'[t] = "done")
    => IF op[t].min > op[t].max \/ op[t].max > 4095
       THEN /\ ret'[t].err # "nil"
            /\ pump' = pump
            /\ io'[t] = <<>> /\ regs' = regs
       ELSE /\ ret'[t].err = "nil"
            /\ <<pump'.minSpeed, pump'.maxSpeed>> = <<op[t].min, op[t].max>>
            /\ pump'.channel = pump.channel

\* the SetSpeed and the GetCurrentSpeed that follow a SetSpeedLimits(min, max) that
\* returned nil scale with (min, max)
C26_NextUses ==
  \A t \in Threads :
    /\ ( /\ Returned(t, "SetSpeed") /\ op[t].after = "SetSpeedLimits"
         /\ ret[t].err = "nil" )
       => lastWrite[t] = <<pump.channel, 0, DutyOf(op[t].percent, op[t].min, op[t].max)>>
    /\ ( Returned(t, "GetCurrentSpeed") /\ op[t].after = "SetSpeedLimits" )
       => ret[t] = Result("nil", <<PercentOf(off[pump.channel], op[t].min, op[t].max)>>)

\* C26: SetSpeedLimits(min, max) fails when min > max or max > 4095, and then leaves
\* the stored limits unchanged and makes no bus write; when it succeeds the stored
\* limits are exactly (min, max), and the next SetSpeed and the next GetCurrentSpeed
\* use them.
C26_SetSpeedLimits == [] C26_NextUses /\ [][C26_Step]_vars

C26_Witness ==
  /\ Returned(Caller, "SetSpeed") /\ op[Caller].after = "SetSpeedLimits"
  /\ <<op[Caller].min, op[Caller].max>> = <<1000, 3500>>
  /\ op[Caller].percent = 50
  /\ ret[Caller].err = "nil"
  /\ lastWrite[Caller] = <<0, 0, 2250>>
  /\ off[0] = 2250

\* C27: the stored limits of a pump satisfy minSpeed <= maxSpeed <= 4095, whatever pair
\* of 16-bit values the limits option was given and whatever SetSpeedLimits calls
\* followed, and every duty that SetSpeed writes lies in minSpeed..maxSpeed.
C27_LimitsOrdered ==
  /\ pump.minSpeed <= pump.maxSpeed /\ pump.maxSpeed <= 4095
  /\ \A t \in Threads :
       (op[t].name \in {"SetSpeed", "Stop"} /\ Len(io[t]) > 0)
       => \E d \in pump.minSpeed .. pump.maxSpeed :
            io[t][1].data = <<0, 0, d % 256, d \div 256>>

(* ---- the RGB led -------------------------------------------------------------------- *)
\* round(v * brightness * (max - min) / 255 + min), clamped to max
RoundedDuty(v, min, max) ==
  LET d == ((2 * v * led.brightness[1] * (max - min) + 255 * led.brightness[2])
              \div (2 * 255 * led.brightness[2])) + min
  IN IF d > max THEN max ELSE d

\* C28: at brightness 1 with the default calibration, SetColor(255, 0, 128) records
\* on = 0 on the three channels and the off values 4095, 0 and 2064 on red, green and
\* blue.
C28_ColorDuties ==
  \A t \in Threads :
    ( /\ Returned(t, "SetColor") /\ ret[t].err = "nil"
      /\ op[t].rgb = <<255, 0, 128>>
      /\ led.brightness = <<1, 1>>
      /\ led.calibration = DefaultRGBCalibration )
    => /\ \A i \in 1 .. 3 : on[led.channels[i]] = 0
       /\ <<off[led.channels[1]], off[led.channels[2]], off[led.channels[3]]>>
            = <<4095, 0, 2064>>

\* the calibration range of led channel i
CalMin(i) ==
  <<led.calibration.RedMin, led.calibration.GreenMin, led.calibration.BlueMin>>[i]
CalMax(i) ==
  <<led.calibration.RedMax, led.calibration.GreenMax, led.calibration.BlueMax>>[i]

\* C29: for every level v in 0..255, brightness in [0, 1] and calibration range with
\* min <= max, the off value that SetColor submits for a channel is
\* round(v * brightness * (max - min) / 255 + min) clamped to max, lies in min..max,
\* and the on value it submits is 0.
C29_ColorScaling ==
  \A t \in Threads :
    (op[t].name = "SetColor" /\ pc[t] # "Color_build")
    => \A i \in 1 .. 3 :
         CalMin(i) <= CalMax(i)
         => /\ op[t].settings[led.channels[i]]
                 = <<0, RoundedDuty(op[t].rgb[i], CalMin(i), CalMax(i))>>
            /\ op[t].settings[led.channels[i]][2] \in CalMin(i) .. CalMax(i)

(* ---- FadeChannel -------------------------------------------------------------------- *)
\* goroutine t is inside a FadeChannel call
Fading(t) == op[t].name = "FadeChannel" /\ pc[t] \notin {"idle", "done"}

\* a FadeChannel call on an enabled channel makes at most 20 writes; when every write
\* succeeded and the token has not fired it returns nil after exactly 20 writes, with
\* the recorded (on, off) of the channel at (0, end)
C31_Returns ==
  \A t \in Threads :
    (op[t].name = "FadeChannel" /\ op[t].ch \in Channels)
    => /\ Len(io[t]) <= 20
       /\ (pc[t] = "done" /\ AllOk(io[t]) /\ ~ctxDone[t])
          => /\ ret[t].err = "nil"
             /\ Len(io[t]) = 20
             /\ \A i \in 1 .. 20 : IsWrite(io[t][i], 6 + 4 * op[t].ch)
             /\ <<on[op[t].ch], off[op[t].ch]>> = <<0, op[t].off>>

\* C31: FadeChannel(channel, start, end, duration) on an enabled channel with a healthy
\* bus and a token that never fires makes 20 SetPWM steps, returns nil and leaves the
\* recorded off of the channel equal to end; every FadeChannel call returns.
C31_FadeTerminates ==
  /\ [] C31_Returns
  /\ \A t \in Threads : Fading(t) ~> pc[t] = "done"

C31_Witness ==
  /\ Returned(Caller, "FadeChannel")
  /\ <<op[Caller].ch, op[Caller].on, op[Caller].off>> = <<0, 0, 3000>>
  /\ ret[Caller].err = "nil"
  /\ Len(io[Caller]) = 20 /\ AllOk(io[Caller])
  /\ io[Caller][10].data = <<0, 0, 220, 5>>
  /\ off[0] = 3000

\* the points at which a running FadeChannel tests the token: the head of its loop while
\* steps remain, and the select of SetPWM before its write
CheckPoint(t) ==
  \/ pc[t] = "Fade_loop" /\ loc[t].i < 20
  \/ pc[t] = "SetPWM_write"

\* a step of a FadeChannel call on a valid channel whose token has fired: no bus access
\* and no change behind the bus; taken at a check point, it returns the cancellation
\* error
C32_Step ==
  \A t \in Threads :
    (Fading(t) /\ op[t].ch \in Channels /\ ctxDone[t] /\ pc'[t] # pc[t])
    => /\ io'[t] = io[t] /\ regs' = regs
       /\ CheckPoint(t) => (pc'[t] = "done" /\ ret'[t].err = "canceled")

\* the payload of the last write of the log that reached the device, <<>> when none
RECURSIVE LastStored(_)
LastStored(log) ==
  IF log = <<>> THEN <<>>
  ELSE IF log[Len(log)].kind = "w" /\ log[Len(log)].ok THEN log[Len(log)].data
  ELSE LastStored(SubSeq(log, 1, Len(log) - 1))

\* a FadeChannel that returned the cancellation error left the channel with the value
\* of the last step that was written
C32_KeepsLast ==
  \A t \in Threads :
    ( /\ Returned(t, "FadeChannel") /\ ret[t].err = "canceled"
      /\ LastStored(io[t]) # <<>> )
    => LastStored(io[t])
         = <<on[op[t].ch] % 256, on[op[t].ch] \div 256,
             off[op[t].ch] % 256, off[op[t].ch] \div 256>>

\* C32: once the token has fired during a FadeChannel, the call returns the
\* cancellation error at its next check point, makes no further bus write, and the
\* channel keeps the value of the last step that was written.
C32_FadeCanceled == [] C32_KeepsLast /\ [][C32_Step]_vars

C32_Witness ==
  /\ Returned(Caller, "FadeChannel")
  /\ <<op[Caller].ch, op[Caller].on, op[Caller].off>> = <<0, 0, 3000>>
  /\ ~op[Caller].canceled /\ ctxDone[Caller]
  /\ ret[Caller].err = "canceled"
  /\ Len(io[Caller]) = 3 /\ AllOk(io[Caller])
  /\ off[0] = 450

(* ---- Reset --------------------------------------------------------------------------- *)
\* C33: after Reset has returned nil the device is in sleep mode with auto-increment
\* enabled, and none of its channel registers holds a duty value other than zero.
C33_ResetClears ==
  \A t \in Threads :
    (Returned(t, "Reset") /\ ret[t].err = "nil")
    => /\ regs[0] = <<48>>
       /\ \A c \in Channels :
            \A i \in 1 .. Len(regs[6 + 4 * c]) : regs[6 + 4 * c][i] = 0

(* ---- the sleep bit ------------------------------------------------------------------- *)
\* the last byte that call log wrote to MODE1 with success, -1 when none
RECURSIVE LastMode1(_)
LastMode1(log) ==
  IF log = <<>> THEN -1
  ELSE IF log[Len(log)].kind = "w" /\ log[Len(log)].reg = 0 /\ log[Len(log)].ok
       THEN log[Len(log)].data[1]
  ELSE LastMode1(SubSeq(log, 1, Len(log) - 1))

\* C34: when New or SetPWMFreq has returned nil, the byte last written to MODE1 has
\* the sleep bit (0x10) clear.
C34_AwakeAfterFreq ==
  \A t \in Threads :
    (pc[t] = "done" /\ op[t].name \in {"New", "SetPWMFreq"} /\ ret[t].err = "nil")
    => /\ LastMode1(io[t]) >= 0
       /\ (LastMode1(io[t]) \div 16) % 2 = 0

(* ---- concurrent writers and readers of one channel ----------------------------------- *)
\* the (on, off) pairs that the set operations of the model pass
PassedPairs == {<<291, 4095>>, <<0, 4096>>}

\* C35: the (on, off) that GetChannelState returns is the initial (0, 0) or a pair
\* that one set operation passed together, in every interleaving with concurrent
\* SetPWM and SetAllPWM calls.
C35_NeverTorn ==
  \A t \in Threads :
    (Returned(t, "GetChannelState") /\ ret[t].err = "nil")
    => <<ret[t].val[2], ret[t].val[3]>> \in PassedPairs \cup {<<0, 0>>}

\* C36: when no call is in progress, the recorded (on, off) of every enabled channel
\* is the payload of the last successful bus write that addressed the channel, through
\* its own registers or through the broadcast register.
C36_CacheIsLastWrite ==
  (\A t \in Threads : pc[t] \in {"idle", "done"})
  => \A c \in Channels :
       (enabled[c] /\ regs[6 + 4 * c] # <<>>)
       => regs[6 + 4 * c] = <<on[c] % 256, on[c] \div 256, off[c] % 256, off[c] \div 256>>

(* ---- the range of the prescale value -------------------------------------------------- *)
\* the bytes that SetPWMFreq call log wrote to PRESCALE (one at most)
PrescaleBytes(log) ==
  {log[i].data[1] : i \in {j \in 1 .. Len(log) : log[j].kind = "w" /\ log[j].reg = 254}}

\* round(25000000 / (4096 * f)) - 1, raised to 3, as an integer that is not cut to a
\* byte: the whole number nearest to the quotient (halves away from zero), less one
PrescaleValue(f) ==
  LET r == CHOOSE q \in 0 .. 1023 :
             /\ (2 * q - 1) * (4096 * f) <= 2 * 25000000
             /\ 2 * 25000000 < (2 * q + 1) * (4096 * f)
  IN IF r - 1 < 3 THEN 3 ELSE r - 1

\* C37: for every whole f in 24..1526 the prescale value of SetPWMFreq(f) lies in
\* 3..255, so that the byte written to register 0xFE is the value itself; the value
\* does not increase with f, and is 253 at f = 24 and 3 at f = 1526.
C37_PrescaleRange ==
  \A t \in Threads :
    op[t].name = "SetPWMFreq"
    => \A b \in PrescaleBytes(io[t]) :
         /\ PrescaleValue(op[t].freq) \in 3 .. 255
         /\ b = PrescaleValue(op[t].freq)
         /\ op[t].freq = 24 => b = 253
         /\ op[t].freq = 1526 => b = 3
         /\ \A u \in Threads \ {t} :
              (op[u].name = "SetPWMFreq" /\ op[t].freq <= op[u].freq)
              => \A d \in PrescaleBytes(io[u]) : d <= b

C37_Witness ==
  /\ Returned(Caller, "SetPWMFreq") /\ Returned(Peer, "SetPWMFreq")
  /\ op[Caller].freq = 24 /\ op[Peer].freq = 25
  /\ ret[Caller].err = "nil" /\ ret[Peer].err = "nil"
  /\ PrescaleBytes(io[Caller]) = {253}
  /\ PrescaleBytes(io[Peer]) = {243}

(* ---- what SetPWM, EnableChannels and GetChannelState leave alone ------------------------ *)
\* a step of a SetPWM(c, on, off) call changes neither the recorded (enabled, on, off)
\* of a channel other than c, nor an enabled flag, nor the recorded frequency; a step
\* of an EnableChannels or GetChannelState call makes no bus access and changes no
\* recorded on or off
C38_Step ==
  \A t \in Threads :
    /\ (op[t].name = "SetPWM" /\ pc[t] \notin {"idle", "done"})
       => /\ \A c \in Channels \ {op[t].ch} : <<on'[c], off'[c]>> = <<on[c], off[c]>>
          /\ enabled' = enabled
          /\ Freq' = Freq
    /\ (op[t].name \in {"EnableChannels", "GetChannelState"}
          /\ pc[t] \notin {"idle", "done"})
       => /\ io'[t] = <<>> /\ regs' = regs
          /\ on' = on /\ off' = off

\* C38: a SetPWM(c, on, off) call, successful or not, leaves unchanged the recorded
\* (enabled, on, off) of every channel other than c, the enabled flag of c and the
\* recorded frequency; EnableChannels and GetChannelState make no bus access and
\* change no on or off value.
C38_Frame == [][C38_Step]_vars

C38_Witness ==
  /\ Returned(Caller, "SetPWM")
  /\ op[Caller].ch = 15 /\ ret[Caller].err = "nil"
  /\ Len(io[Caller]) = 1
  /\ <<on[15], off[15]>> = <<0, 4096>>
  /\ \A c \in Channels \ {15} : <<on[c], off[c]>> = <<0, 0>>
  /\ \A c \in Channels : enabled[c]
  /\ Freq = 1000

(* ---- after Close ------------------------------------------------------------------------ *)
\* the operations that touch the bus
BusCalls == {"SetPWM", "SetAllPWM", "SetMultiPWM", "DisableChannels", "SetPWMFreq"}

\* once Close has run, no step reaches the bus
C39_Step ==
  closed => (regs' = regs /\ \A t \in Threads : Len(io'[t]) <= Len(io[t]))

\* a call of a bus operation that returned after Close returned an error
C39_Fails ==
  \A t \in Threads :
    (closed /\ pc[t] = "done" /\ op[t].name \in BusCalls) => ret[t].err # "nil"

\* C39: after Close has returned no operation makes a further read or write on the
\* bus: every later SetPWM, SetAllPWM, SetMultiPWM, DisableChannels or SetPWMFreq
\* fails without a bus access, whatever token the caller passes.
C39_NoBusAfterClose == [] C39_Fails /\ [][C39_Step]_vars

====
